---- MODULE Spec2Model ----
(***************************************************************************)
(* A model of cafs: the content-addressed store (CAS), its key index, the  *)
(* merkle hash over key prefixes, and the prefix-sharded push/pull against *)
(* an OCI registry.                                                        *)
(*                                                                         *)
(* Strings are sequences of byte values.  A blob's bytes are identified by *)
(* their SHA-256 hex and their length; SHA-256 is modelled as injective.   *)
(***************************************************************************)
EXTENDS Integers, Sequences, FiniteSets, TLC

VARIABLES
    entries,    \* CAS.entries of each store: key -> Info
    files,      \* the blob directory of each store's cache dir: digest -> content
    pending,    \* blobStore.pending of each store: set of digests
    dirty,      \* CAS.dirty of each store
    indexFile,  \* the content of each store's index file (NoFile when absent)
    registry,   \* the registry: tag -> the image the tag points to, and its revision
    sha,        \* the index contents hashed so far; a content's position names its SHA-256
    ret,        \* the most recent call: store, operation, arguments, result
    ops,        \* number of calls made so far
    proc,       \* the calls in progress: goroutine -> its position and locals
    workspace   \* the Workspace: its node tree, dirty paths, base hash, store and remote

vars == <<entries, files, pending, dirty, indexFile, registry, sha, ret, ops, proc,
          workspace>>

(***************************************************************************)
(* Bounds of the model.                                                    *)
(***************************************************************************)
MaxOps == 5        \* calls in a history of Spec
MaxPush == 2       \* images written to the registry in a history of Spec
MaxLocalOps == 5   \* calls in a history of LocalSpec
MaxHashOps == 4    \* calls in a history of HashSpec
MaxPersistOps == 5 \* calls in a history of PersistSpec
MaxRepullOps == 8  \* calls in a history of RepullSpec
MaxTagOps == 4     \* calls in a history of TagSpec
MaxTagPush == 3    \* images in the registry before the last Push of a history of TagSpec
MaxOpenOps == 4    \* calls in a history of OpenSpec
MaxRaceOps == 4    \* calls started in a history of RaceSpec or CrashSpec
MaxCarryOps == 7   \* calls in a history of CarrySpec
MaxSharedOps == 4  \* calls in a history of SharedSpec

(***************************************************************************)
(* Strings.                                                                *)
(***************************************************************************)
digestPrefix == <<115, 104, 97, 50, 53, 54, 58>>                \* "sha256:"
prefixHashKeyPrefix == <<95, 112, 114, 101, 102, 105, 120, 47>> \* "_prefix/"
Underscore == <<95>>                                            \* "_"
NulSep == <<0>>                                                 \* "\x00"
NewlineSep == <<10>>                                            \* "\n"

\* F applied to the value of v, v evaluated once
Bind(v, F(_)) == CHOOSE y \in {F(x) : x \in {v}} : TRUE

\* strings.HasPrefix
HasPrefix(s, p) == Len(p) <= Len(s) /\ SubSeq(s, 1, Len(p)) = p

\* strings.CutPrefix / strings.TrimPrefix: the rest of s after p
CutPrefix(s, p) == SubSeq(s, Len(p) + 1, Len(s))

\* the byte order of Go strings (a < b), decided at the first index from i on
\* where the two differ or one ends
RECURSIVE LessFrom(_, _, _)
LessFrom(a, b, i) ==
    IF i > Len(b) THEN FALSE
    ELSE IF i > Len(a) THEN TRUE
    ELSE IF a[i] = b[i] THEN LessFrom(a, b, i + 1)
    ELSE a[i] < b[i]
StrLess(a, b) == LessFrom(a, b, 1)

\* sort.Strings on a slice: insertion of each element into the sorted rest
SortStrings_None(q) == q
RECURSIVE SortStrings(_)
SortStrings(q) ==
    IF q = <<>> THEN <<>>
    ELSE LET Insert(rest) ==
                 LET n == Cardinality({i \in 1..Len(rest) : StrLess(rest[i], Head(q))})
                 IN SubSeq(rest, 1, n) \o <<Head(q)>> \o SubSeq(rest, n + 1, Len(rest))
         IN Bind(SortStrings(Tail(q)), Insert)

\* strings.Join
RECURSIVE Join(_, _)
Join(q, sep) ==
    IF q = <<>> THEN <<>>
    ELSE IF Len(q) = 1 THEN q[1]
    ELSE q[1] \o sep \o Join(Tail(q), sep)

\* fmt "%d" of a size
RECURSIVE Decimal(_)
Decimal(n) ==
    IF n < 10 THEN <<48 + n>> ELSE Decimal(n \div 10) \o <<48 + (n % 10)>>

(***************************************************************************)
(* Maps (Go maps and sync.Map) are functions with a finite domain.         *)
(***************************************************************************)
EmptyMap == [x \in {} |-> x]
MapSet(f, k, v) == [x \in (DOMAIN f) \cup {k} |-> IF x = k THEN v ELSE f[x]]
MapDel(f, k) == [x \in (DOMAIN f) \ {k} |-> f[x]]
MapMerge(f, g) == [x \in (DOMAIN f) \cup (DOMAIN g) |-> IF x \in DOMAIN g THEN g[x] ELSE f[x]]

(***************************************************************************)
(* Stores, keys, blobs.                                                    *)
(***************************************************************************)
Stores == {"A", "B"}

KeyAB == <<97, 47, 98>>      \* "a/b"
KeyAC == <<97, 47, 99>>      \* "a/c"
KeyZ == <<122>>              \* "z"
KeyReserved == <<95, 120>>   \* "_x"

\* user data: bytes known by their SHA-256 hex (shard chars first) and length
DataX == [hex |-> <<48, 97, 49>>, len |-> 1]       \* shard "0a"
DataY == [hex |-> <<48, 97, 50>>, len |-> 2]       \* shard "0a"
DataEmpty == [hex |-> <<101, 51, 98>>, len |-> 0]  \* the empty blob, shard "e3"

\* Info.Meta: nil, or a value set by WithMeta
NoMeta == [nil |-> TRUE]
MetaA == [gotype |-> "FileMeta", mode |-> 420]

IsData(c) == "hex" \in DOMAIN c

\* sha256.Sum256 + digestPrefix: the digest of a blob's content
ShardLow == <<48, 97>>     \* "0a"
ShardHigh == <<102, 49>>   \* "f1"
IndexShard(c) == IF Cardinality(DOMAIN c.json) % 2 = 0 THEN ShardLow ELSE ShardHigh
Sha256(c) == [hex |-> c.hex]

\* the same on a serialized index: SHA-256 is injective on the contents that
\* occur, tbl lists them in the order they were first hashed
Hashed(tbl, c) == \E i \in 1..Len(tbl) : tbl[i] = c
IndexOf(tbl, c) ==
    IF Hashed(tbl, c) THEN CHOOSE i \in 1..Len(tbl) : tbl[i] = c ELSE Len(tbl) + 1
Sum256(tbl, c) ==
    IF IsData(c) THEN Sha256(c)
    ELSE [ixshard |-> IndexShard(c), ixid |-> IndexOf(tbl, c)]
Sum256Table(tbl, c) == IF IsData(c) \/ Hashed(tbl, c) THEN tbl ELSE Append(tbl, c)

\* string(digest) of a digest of user data
DigestString(d) == digestPrefix \o d.hex

\* len(data)
ContentLen(c) == IF IsData(c) THEN c.len ELSE 2 + 16 * Cardinality(DOMAIN c.json)

(***************************************************************************)
(* blobStore.                                                              *)
(***************************************************************************)
\* blobStore.putWithDigest: stat, then write only when the file is absent
putWithDigest_NoStat(fs, digest, data) ==
    [files |-> MapSet(fs, digest, data), isNew |-> TRUE, wrote |-> TRUE]
putWithDigest(fs, digest, data) ==
    IF digest \in DOMAIN fs
    THEN [files |-> fs, isNew |-> FALSE, wrote |-> FALSE]
    ELSE [files |-> MapSet(fs, digest, data), isNew |-> TRUE, wrote |-> TRUE]

\* blobStore.Put
blobPut_Always(tbl, fs, pend, data) ==
    LET digest == Sum256(tbl, data)
        w == putWithDigest(fs, digest, data)
    IN [files |-> w.files,
        pending |-> pend \cup {digest},
        digest |-> digest,
        wrote |-> w.wrote]
blobPut(tbl, fs, pend, data) ==
    LET digest == Sum256(tbl, data)
        w == putWithDigest(fs, digest, data)
    IN [files |-> w.files,
        pending |-> IF w.isNew THEN pend \cup {digest} ELSE pend,
        digest |-> digest,
        wrote |-> w.wrote]

\* blobStore.Get
blobGet(fs, digest) ==
    IF digest \in DOMAIN fs THEN [err |-> "nil", data |-> fs[digest]]
    ELSE [err |-> "ENOENT"]

(***************************************************************************)
(* The index: queries.                                                     *)
(***************************************************************************)
IsInternal(key) == HasPrefix(key, prefixHashKeyPrefix)

\* CAS.Get
Get(s, key) ==
    IF key \notin DOMAIN entries[s] THEN [err |-> "ErrNotFound"]
    ELSE blobGet(files[s], entries[s][key].d)

\* CAS.Stat
Stat(s, key) ==
    IF key \notin DOMAIN entries[s] THEN [ok |-> FALSE]
    ELSE [ok |-> TRUE, info |-> entries[s][key]]

\* CAS.Exists
Exists_NoFilter(s, key) == key \in DOMAIN entries[s]
Exists(s, key) ==
    IF HasPrefix(key, Underscore) THEN FALSE ELSE key \in DOMAIN entries[s]

\* CAS.List: the (rel, Info) pairs yielded for a prefix
ListOf(e, prefix) ==
    {<<CutPrefix(k, prefix), e[k]>> :
        k \in {x \in DOMAIN e : ~IsInternal(x) /\ HasPrefix(x, prefix)}}
List(s, prefix) == ListOf(entries[s], prefix)

\* CAS.Len
LenOf_All(e) == Cardinality(DOMAIN e)
LenOf(e) == Cardinality({k \in DOMAIN e : ~IsInternal(k)})
StoreLen(s) == LenOf(entries[s])

\* CAS.Stats: the entries counted, and the distinct digests among them whose
\* blob file exists
StatsOf(e, fs) ==
    LET ks == {k \in DOMAIN e : ~IsInternal(k)}
        ds == {e[k].d : k \in ks} \cap DOMAIN fs
    IN [Entries |-> Cardinality(ks), Blobs |-> Cardinality(ds)]
Stats(s) == StatsOf(entries[s], files[s])

\* the orders in which sync.Map.Range may visit the keys of e
RangeOrders(e) ==
    {q \in [1..Cardinality(DOMAIN e) -> DOMAIN e] :
        \A i, j \in 1..Cardinality(DOMAIN e) : i # j => q[i] # q[j]}
\* one of them
RECURSIVE RangeOrder(_, _)
RangeOrder(e, S) ==
    IF S = {} THEN <<>>
    ELSE LET Rest(k) == <<k>> \o RangeOrder(e, S \ {k})
         IN Bind(CHOOSE x \in S : TRUE, Rest)
SomeRangeOrder(e) == RangeOrder(e, DOMAIN e)

\* CAS.Hash, the Range loop: the items appended while visiting the keys in order
RECURSIVE HashItems_AnyKey(_, _, _)
HashItems_AnyKey(e, prefix, order) ==
    IF order = <<>> THEN <<>>
    ELSE LET key == Head(order)
             rest == HashItems_AnyKey(e, prefix, Tail(order))
         IN IF IsInternal(key) THEN rest
            ELSE <<key \o NulSep \o DigestString(e[key].d)
                     \o NulSep \o Decimal(e[key].s)>> \o rest
RECURSIVE HashItems_WithMeta(_, _, _)
HashItems_WithMeta(e, prefix, order) ==
    IF order = <<>> THEN <<>>
    ELSE LET key == Head(order)
             rest == HashItems_WithMeta(e, prefix, Tail(order))
         IN IF IsInternal(key) THEN rest
            ELSE IF HasPrefix(key, prefix)
                 THEN <<CutPrefix(key, prefix) \o NulSep \o DigestString(e[key].d)
                          \o NulSep \o Decimal(e[key].s)
                          \o (IF e[key].m = NoMeta THEN <<>> ELSE NulSep)>> \o rest
                 ELSE rest
RECURSIVE HashItems(_, _, _)
HashItems(e, prefix, order) ==
    IF order = <<>> THEN <<>>
    ELSE LET key == Head(order)
             rest == HashItems(e, prefix, Tail(order))
         IN IF IsInternal(key) THEN rest
            ELSE IF HasPrefix(key, prefix)
                 THEN <<CutPrefix(key, prefix) \o NulSep \o DigestString(e[key].d)
                          \o NulSep \o Decimal(e[key].s)>> \o rest
                 ELSE rest

\* CAS.Hash: the string handed to sha256.Sum256
HashJoin(items) == Join(SortStrings(items), NewlineSep)
HashContent(e, prefix, order) == HashJoin(HashItems(e, prefix, order))

\* CAS.Hash: "" for no items, else "sha256:" + hex(sha256(content))
EmptyDigest == [empty |-> TRUE]
HashOf(e, prefix, order) ==
    LET Sum(items) == IF items = <<>> THEN EmptyDigest ELSE [sum |-> HashJoin(items)]
    IN Bind(HashItems(e, prefix, order), Sum)

\* CAS.Hash on an index e
HashIn(e, prefix) ==
    LET InOrder(order) == HashOf(e, prefix, order)
    IN Bind(SomeRangeOrder(e), InOrder)
Hash(s, prefix) == HashIn(entries[s], prefix)

\* CAS.Root
Root(s) == Hash(s, <<>>)

\* json.Marshal of a Meta value: the JSON object of its fields, whatever Go
\* type holds them
MarshalMeta(m) == [x \in (DOMAIN m) \ {"gotype"} |-> m[x]]
\* json.Unmarshal of a JSON object into `any`: a map[string]any
UnmarshalMeta(j) ==
    [x \in (DOMAIN j) \cup {"gotype"} |-> IF x = "gotype" THEN "map[string]any" ELSE j[x]]

\* CAS.serialize: the JSON object, with omitempty on "s" and "m"
SerializedInfo_NoSize(info) ==
    IF info.m = NoMeta THEN [d |-> info.d] ELSE [d |-> info.d, m |-> MarshalMeta(info.m)]
SerializedInfo(info) ==
    IF info.s = 0
    THEN (IF info.m = NoMeta THEN [d |-> info.d]
          ELSE [d |-> info.d, m |-> MarshalMeta(info.m)])
    ELSE (IF info.m = NoMeta THEN [d |-> info.d, s |-> info.s]
          ELSE [d |-> info.d, s |-> info.s, m |-> MarshalMeta(info.m)])
serialize(e) == [json |-> [k \in DOMAIN e |-> SerializedInfo(e[k])]]

\* CAS.load: every decoded record is stored over the current entries
LoadedInfo(v) ==
    [d |-> v.d,
     s |-> IF "s" \in DOMAIN v THEN v.s ELSE 0,
     m |-> IF "m" \in DOMAIN v THEN UnmarshalMeta(v.m) ELSE NoMeta]
load(e, data) == MapMerge(e, [k \in DOMAIN data.json |-> LoadedInfo(data.json[k])])

NoFile == [absent |-> TRUE]

(***************************************************************************)
(* Local operations of a store.                                            *)
(***************************************************************************)
\* CAS.Put
Put(s, key, data, meta) ==
    IF HasPrefix(key, Underscore)
    THEN /\ ret' = [op |-> "Put", s |-> s, key |-> key, err |-> "ErrReservedKey"]
         /\ UNCHANGED <<entries, files, pending, dirty, indexFile, registry, sha>>
    ELSE LET b == blobPut(sha, files[s], pending[s], data)
             info == [d |-> b.digest, s |-> data.len, m |-> meta]
             \* the entry stored replaces one that differs from it in Meta only
             metaOnly == /\ key \in DOMAIN entries[s]
                         /\ entries[s][key].d = info.d /\ entries[s][key].s = info.s
                         /\ entries[s][key].m # info.m
         IN /\ files' = [files EXCEPT ![s] = b.files]
            /\ pending' = [pending EXCEPT ![s] = b.pending]
            /\ entries' = [entries EXCEPT ![s] = MapSet(@, key, info)]
            /\ dirty' = [dirty EXCEPT ![s] = TRUE]
            /\ ret' = [op |-> "Put", s |-> s, key |-> key, err |-> "nil",
                       data |-> data, wrote |-> b.wrote, metaOnly |-> metaOnly]
            /\ UNCHANGED <<indexFile, registry, sha>>

\* CAS.Delete
Delete_NotDirty(s, key) ==
    /\ entries' = [entries EXCEPT ![s] = MapDel(@, key)]
    /\ ret' = [op |-> "Delete", s |-> s, key |-> key, err |-> "nil"]
    /\ UNCHANGED <<files, pending, dirty, indexFile, registry, sha>>
Delete(s, key) ==
    /\ entries' = [entries EXCEPT ![s] = MapDel(@, key)]
    /\ dirty' = [dirty EXCEPT ![s] = TRUE]
    /\ ret' = [op |-> "Delete", s |-> s, key |-> key, err |-> "nil"]
    /\ UNCHANGED <<files, pending, indexFile, registry, sha>>

\* CAS.Clear
Clear(s) ==
    /\ entries' = [entries EXCEPT ![s] = EmptyMap]
    /\ dirty' = [dirty EXCEPT ![s] = TRUE]
    /\ ret' = [op |-> "Clear", s |-> s, err |-> "nil"]
    /\ UNCHANGED <<files, pending, indexFile, registry, sha>>

\* CAS.GC: remove every blob file whose hash no entry references
Referenced_None(e) == {}
Referenced(e) == {e[k].d : k \in DOMAIN e}
GC_NoRemove(s) ==
    /\ ret' = [op |-> "GC", s |-> s, err |-> "nil", removed |-> 0]
    /\ UNCHANGED <<entries, files, pending, dirty, indexFile, registry, sha>>
GC(s) ==
    LET keep == (DOMAIN files[s]) \cap Referenced(entries[s])
    IN /\ files' = [files EXCEPT ![s] = [d \in keep |-> files[s][d]]]
       /\ ret' = [op |-> "GC", s |-> s, err |-> "nil",
                  removed |-> Cardinality((DOMAIN files[s]) \ keep)]
       /\ UNCHANGED <<entries, pending, dirty, indexFile, registry, sha>>

\* CAS.Sync
Sync(s) ==
    /\ IF dirty[s]
       THEN /\ indexFile' = [indexFile EXCEPT ![s] = serialize(entries[s])]
            /\ dirty' = [dirty EXCEPT ![s] = FALSE]
       ELSE UNCHANGED <<indexFile, dirty>>
    /\ ret' = [op |-> "Sync", s |-> s, err |-> "nil"]
    /\ UNCHANGED <<entries, files, pending, registry, sha>>

\* CAS.Close
Close(s) ==
    /\ IF dirty[s]
       THEN /\ indexFile' = [indexFile EXCEPT ![s] = serialize(entries[s])]
            /\ dirty' = [dirty EXCEPT ![s] = FALSE]
       ELSE UNCHANGED <<indexFile, dirty>>
    /\ ret' = [op |-> "Close", s |-> s, err |-> "nil"]
    /\ UNCHANGED <<entries, files, pending, registry, sha>>

\* CAS.loadLocalIndex on a new instance: the index file, when it can be read,
\* is loaded into the empty index
loadLocalIndex(file) == IF file = NoFile THEN EmptyMap ELSE load(EmptyMap, file)

\* Open (autoPull = never) of a new instance on the cache directory and ref
\* of s; the instance used before is dropped
Open(s) ==
    /\ entries' = [entries EXCEPT ![s] = loadLocalIndex(indexFile[s])]
    /\ pending' = [pending EXCEPT ![s] = {}]
    /\ dirty' = [dirty EXCEPT ![s] = FALSE]
    /\ ret' = [op |-> "Open", s |-> s, err |-> "nil"]
    /\ UNCHANGED <<files, indexFile, registry, sha>>

(***************************************************************************)
(* The workspace (workspace.go, node.go).  A path is the sequence of its   *)
(* names, the root the empty sequence; the node tree is the map from the   *)
(* path of every node that is in memory to the node, so the children map   *)
(* of a directory is the set of the paths one name longer.  An object is   *)
(* named by its SHA-256, which the model writes as the object itself: a    *)
(* blob by its content, a tree by its sorted entries.                      *)
(***************************************************************************)
\* an object name: its type with the blob's content or the tree's entries
Object(type, content, tree) == [type |-> type, content |-> content, entries |-> tree]
NoHash == Object("none", DataEmpty, EmptyMap)
DirPerm == "0755"

\* newDirNode: dirty, no hash, no store, loaded false
newDirNode(perm) ==
    [isDir |-> TRUE, perm |-> perm, content |-> DataEmpty, hash |-> NoHash,
     dirty |-> TRUE, loaded |-> FALSE, store |-> FALSE]

\* newFileNode
newFileNode(content, perm) ==
    [isDir |-> FALSE, perm |-> perm, content |-> content, hash |-> NoHash,
     dirty |-> TRUE, loaded |-> FALSE, store |-> FALSE]

\* newWorkspace: an empty root directory, nothing dirty, no base hash; the
\* local store and the remote hold nothing yet
newWorkspace ==
    [root |-> [p \in {<<>>} |-> newDirNode(DirPerm)],
     dirty |-> {},
     baseHash |-> NoHash,
     store |-> {},
     ref |-> NoHash,
     remote |-> [rootHash |-> NoHash, objects |-> {}]]

(***************************************************************************)
(* The state after Open of each store on a new cache directory.            *)
(***************************************************************************)
Init ==
    /\ entries = [s \in Stores |-> EmptyMap]
    /\ files = [s \in Stores |-> EmptyMap]
    /\ pending = [s \in Stores |-> {}]
    /\ dirty = [s \in Stores |-> FALSE]
    /\ indexFile = [s \in Stores |-> NoFile]
    /\ registry = EmptyMap
    /\ sha = <<>>
    /\ ret = [op |-> "Open", err |-> "nil"]
    /\ ops = 0
    /\ proc = EmptyMap
    /\ workspace = newWorkspace

(***************************************************************************)
(* internal/remote: shards, shard hashes, the layer codec, the layer plan. *)
(***************************************************************************)
LayerMinSize == 2 * 1024 * 1024
LayerSoftMax == 10 * 1024 * 1024

\* the hex of a digest as far as the model knows it (sort.Strings on digests)
IndexTail == <<57>>
DigestHex(d) ==
    IF "hex" \in DOMAIN d THEN d.hex ELSE d.ixshard \o IndexTail \o Decimal(d.ixid)

\* extractPrefix: the first two hex chars
extractPrefix(d) == SubSeq(DigestHex(d), 1, 2)

\* sort.Strings on a set of digests
SortDigests(S) ==
    LET Sorted(v) ==
            LET rank(x) == Cardinality({y \in v : StrLess(DigestHex(y), DigestHex(x))}) + 1
            IN [r \in 1..Cardinality(v) |-> CHOOSE x \in v : rank(x) = r]
    IN Bind(S, Sorted)

\* sort.Strings on a set of shard names
SortShards(S) ==
    LET Sorted(v) ==
            LET rank(x) == Cardinality({y \in v : StrLess(y, x)}) + 1
            IN [r \in 1..Cardinality(v) |-> CHOOSE x \in v : rank(x) = r]
    IN Bind(S, Sorted)

Restrict(f, S) == [x \in S |-> f[x]]

\* GroupByPrefix
GroupByPrefix(objects) ==
    [p \in {extractPrefix(d) : d \in DOMAIN objects} |->
        Restrict(objects, {d \in DOMAIN objects : extractPrefix(d) = p})]

\* PrefixHash: sha256 over the sorted digests, each followed by its blob length
PrefixHash(blobs) ==
    IF DOMAIN blobs = {} THEN EmptyDigest
    ELSE LET Sum(ds) == [ph |-> [i \in 1..Len(ds) |-> <<ds[i], ContentLen(blobs[ds[i]])>>]]
         IN Bind(SortDigests(DOMAIN blobs), Sum)

\* PrefixSize
RECURSIVE SumLen(_, _)
SumLen(blobs, S) ==
    IF S = {} THEN 0
    ELSE LET d == CHOOSE x \in S : TRUE
         IN ContentLen(blobs[d]) + SumLen(blobs, S \ {d})
PrefixSize(blobs) == SumLen(blobs, DOMAIN blobs)

\* CalculatePrefixSizes
CalculatePrefixSizes(byPrefix) == [p \in DOMAIN byPrefix |-> PrefixSize(byPrefix[p])]

\* PackLayer: the records [digest][length][data] in ascending digest order
PackLayer(blobs) ==
    LET Records(ds) ==
            [i \in 1..Len(ds) |->
                [digest |-> ds[i], length |-> ContentLen(blobs[ds[i]]), data |-> blobs[ds[i]]]]
    IN Bind(SortDigests(DOMAIN blobs), Records)

\* len(PackLayer(blobs)): each record is digestLen + lenBufLen + len(data) bytes
digestLen == 71
lenBufLen == 8
RECURSIVE PackedLen(_, _)
PackedLen(packed, n) ==
    IF n = 0 THEN 0
    ELSE digestLen + lenBufLen + packed[n].length + PackedLen(packed, n - 1)

\* UnpackLayer: bytes.Reader.Read returns io.EOF when the reader is at its end,
\* also for a read of zero bytes: a last record of length 0 fails "read data"
UnpackLayer(packed) ==
    IF Len(packed) > 0 /\ packed[Len(packed)].length = 0
    THEN [err |-> "read data: EOF"]
    ELSE [err |-> "nil",
          blobs |-> [d \in {packed[i].digest : i \in 1..Len(packed)} |->
                        (CHOOSE r \in {packed[i] : i \in 1..Len(packed)} : r.digest = d).data]]

\* BuildLayerPlan's loop without the 2 * LayerSoftMax cap on a small group
RECURSIVE PlanLoop_NoCap(_, _, _)
PlanLoop_NoCap(prefixes, sizes, n) ==
    IF n = 0 THEN [layers |-> <<>>, current |-> <<>>, size |-> 0]
    ELSE LET Visit(st) ==
                 LET prefix == prefixes[n]
                     prefixSize == sizes[prefix]
                     newSize == st.size + prefixSize
                 IN IF Len(st.current) = 0
                    THEN [layers |-> st.layers, current |-> <<prefix>>, size |-> prefixSize]
                    ELSE IF newSize <= LayerSoftMax \/ st.size < LayerMinSize
                    THEN [layers |-> st.layers, current |-> Append(st.current, prefix),
                          size |-> newSize]
                    ELSE [layers |-> Append(st.layers, st.current), current |-> <<prefix>>,
                          size |-> prefixSize]
         IN Bind(PlanLoop_NoCap(prefixes, sizes, n - 1), Visit)

\* BuildLayerPlan: the loop over the sorted shard names; the state after the
\* first n of them
RECURSIVE PlanLoop(_, _, _)
PlanLoop(prefixes, sizes, n) ==
    IF n = 0 THEN [layers |-> <<>>, current |-> <<>>, size |-> 0]
    ELSE LET Visit(st) ==
                 LET prefix == prefixes[n]
                     prefixSize == sizes[prefix]
                     newSize == st.size + prefixSize
                 IN IF Len(st.current) = 0
                    THEN [layers |-> st.layers, current |-> <<prefix>>, size |-> prefixSize]
                    ELSE IF newSize <= LayerSoftMax
                    THEN [layers |-> st.layers, current |-> Append(st.current, prefix),
                          size |-> newSize]
                    ELSE IF st.size < LayerMinSize /\ newSize <= 2 * LayerSoftMax
                    THEN [layers |-> st.layers, current |-> Append(st.current, prefix),
                          size |-> newSize]
                    ELSE [layers |-> Append(st.layers, st.current), current |-> <<prefix>>,
                          size |-> prefixSize]
         IN Bind(PlanLoop(prefixes, sizes, n - 1), Visit)
BuildLayerPlan_NoFlush(prefixSizes) ==
    LET Plan(prefixes) ==
            LET Flush(st) == st.layers
            IN Bind(PlanLoop(prefixes, prefixSizes, Len(prefixes)), Flush)
    IN Bind(SortShards(DOMAIN prefixSizes), Plan)
BuildLayerPlan(prefixSizes) ==
    LET Plan(prefixes) ==
            LET Flush(st) == IF Len(st.current) > 0 THEN Append(st.layers, st.current)
                             ELSE st.layers
            IN Bind(PlanLoop(prefixes, prefixSizes, Len(prefixes)), Flush)
    IN Bind(SortShards(DOMAIN prefixSizes), Plan)

\* CollectPrefixBlobs
CollectPrefixBlobs(group, byPrefix) ==
    LET ds == UNION {DOMAIN byPrefix[group[i]] : i \in 1..Len(group)}
    IN [d \in ds |-> byPrefix[extractPrefix(d)][d]]

\* newBlobLayer and blobLayer.Digest: sha256 of the compressed packed bytes; the data
\* of a record is known by its digest and length
newBlobLayer(packed) == [packed |-> packed]
LayerDigest(layer) ==
    [layerOf |-> [i \in 1..Len(layer.packed) |->
                     <<layer.packed[i].digest, layer.packed[i].length>>]]

\* OCIRemote.Push up to pushImage: the new PrefixInfo map and the image built
RemotePush(rootHash, objects, localPrefixes) ==
    LET Build(byPrefix) ==
            LET Changed(currentHashes) ==
                    LET changedPrefixes == {p \in DOMAIN currentHashes :
                                               p \notin DOMAIN localPrefixes
                                                   \/ localPrefixes[p].hash # currentHashes[p]}
                        carried == Restrict(localPrefixes,
                                       (DOMAIN localPrefixes) \cap (DOMAIN currentHashes))
                        changedByPrefix == Restrict(byPrefix, changedPrefixes)
                        Layers(layerPlan) ==
                            LET Image(layers) ==
                                    LET groupOf(p) ==
                                            CHOOSE i \in 1..Len(layerPlan) :
                                                \E j \in 1..Len(layerPlan[i]) : layerPlan[i][j] = p
                                        newPrefixes ==
                                            MapMerge(carried,
                                                [p \in changedPrefixes |->
                                                    [hash |-> currentHashes[p],
                                                     layer |-> LayerDigest(layers[groupOf(p)])]])
                                    IN [prefixes |-> newPrefixes,
                                        image |-> [layers |-> layers, root |-> rootHash,
                                                   prefixes |-> newPrefixes]]
                            IN Bind([i \in 1..Len(layerPlan) |->
                                        newBlobLayer(PackLayer(
                                            CollectPrefixBlobs(layerPlan[i], changedByPrefix)))],
                                    Image)
                    IN IF changedPrefixes = {}
                       THEN [prefixes |-> carried,
                             image |-> [layers |-> <<>>, root |-> rootHash,
                                        prefixes |-> carried]]
                       ELSE Bind(BuildLayerPlan(CalculatePrefixSizes(changedByPrefix)), Layers)
            IN Bind([p \in DOMAIN byPrefix |-> PrefixHash(byPrefix[p])], Changed)
    IN Bind(GroupByPrefix(objects), Build)

\* OCIRemote.Pull on the image fetched: the needed layers are unpacked and merged
RECURSIVE MergeLayers(_, _)
MergeLayers(layers, n) ==
    IF n = 0 THEN [err |-> "nil", objects |-> EmptyMap]
    ELSE LET Merge(acc) ==
                 LET Add(u) == IF u.err # "nil" THEN [err |-> u.err]
                               ELSE [err |-> "nil", objects |-> MapMerge(acc.objects, u.blobs)]
                 IN IF acc.err # "nil" THEN acc
                    ELSE Bind(UnpackLayer(layers[n].packed), Add)
         IN Bind(MergeLayers(layers, n - 1), Merge)
RemotePull(image, localPrefixes) ==
    LET remotePrefixes == image.prefixes
        neededLayers == {remotePrefixes[p].layer :
                            p \in {q \in DOMAIN remotePrefixes :
                                      q \notin DOMAIN localPrefixes
                                          \/ localPrefixes[q].hash # remotePrefixes[q].hash}}
        Fetch(neededLayerList) ==
            LET Result(m) ==
                    IF m.err # "nil" THEN [err |-> m.err]
                    ELSE [err |-> "nil", rootHash |-> image.root, objects |-> m.objects,
                          prefixes |-> remotePrefixes,
                          fetched |-> {LayerDigest(neededLayerList[i]) :
                                          i \in 1..Len(neededLayerList)}]
            IN Bind(MergeLayers(neededLayerList, Len(neededLayerList)), Result)
    IN Bind(SelectSeq(image.layers, LAMBDA l : LayerDigest(l) \in neededLayers), Fetch)

(***************************************************************************)
(* The sync orchestrator: the `_prefix/*` records, Push, Pull.             *)
(***************************************************************************)
\* Info.Digest of a `_prefix/*` record: info.Hash + "|" + info.Layer
Compound(pi) == [cat |-> <<pi.hash, pi.layer>>]
IsCompound(d) == "cat" \in DOMAIN d

\* CAS.loadPrefixHashes: the records whose digest splits in two at "|"
loadPrefixHashes(e) ==
    LET ks == {k \in DOMAIN e : IsInternal(k) /\ IsCompound(e[k].d)}
    IN [p \in {CutPrefix(k, prefixHashKeyPrefix) : k \in ks} |->
           [hash |-> e[prefixHashKeyPrefix \o p].d.cat[1],
            layer |-> e[prefixHashKeyPrefix \o p].d.cat[2]]]

\* CAS.savePrefixHashes: one record stored per shard of the map
savePrefixHashes(e, prefixes) ==
    MapMerge(e, [k \in {prefixHashKeyPrefix \o p : p \in DOMAIN prefixes} |->
                    [d |-> Compound(prefixes[CutPrefix(k, prefixHashKeyPrefix)]),
                     s |-> 0, m |-> NoMeta]])

\* the objects CAS.pushToTag hands to the remote: the index blob and every
\* pending digest whose blob can be read
PushObjects(fs, pend, indexDigest, indexData) ==
    MapMerge([d \in {x \in pend : x \in DOMAIN fs} |-> fs[d]],
             [d \in {indexDigest} |-> indexData])

\* CAS.pushToTag on a store state st; netOK: remote.Write succeeds
pushToTag(st, tag, netOK) ==
    LET Stored(indexData) ==
            LET Sent(b) ==
                    LET tbl == Sum256Table(st.sha, indexData)
                        rev == IF tag \in DOMAIN st.registry THEN st.registry[tag].rev ELSE 0
                        Done(r) ==
                            [entries |-> savePrefixHashes(st.entries, r.prefixes),
                             files |-> b.files,
                             pending |-> {},
                             dirty |-> TRUE,
                             registry |-> MapSet(st.registry, tag,
                                                 [image |-> r.image, rev |-> rev + 1]),
                             sha |-> tbl,
                             err |-> "nil"]
                        Send(objects) ==
                            LET Call(local) == Bind(RemotePush(b.digest, objects, local), Done)
                            IN Bind(loadPrefixHashes(st.entries), Call)
                    IN IF netOK
                       THEN Bind(PushObjects(b.files, b.pending, b.digest, indexData), Send)
                       ELSE [entries |-> st.entries,
                             files |-> b.files,
                             pending |-> b.pending,
                             dirty |-> st.dirty,
                             registry |-> st.registry,
                             sha |-> tbl,
                             err |-> "push image"]
            IN Bind(blobPut(st.sha, st.files, st.pending, indexData), Sent)
    IN Bind(serialize(st.entries), Stored)

\* CAS.Push: the loop over the tags, stopped by the first error
RECURSIVE PushTags_All(_, _, _)
PushTags_All(st, tags, failAt) ==
    IF tags = <<>> THEN st
    ELSE LET Rest(st1) ==
                 IF st1.err # "nil"
                 THEN [PushTags_All([st1 EXCEPT !.err = "nil"], Tail(tags), failAt - 1)
                          EXCEPT !.err = st1.err]
                 ELSE PushTags_All(st1, Tail(tags), failAt - 1)
         IN Bind(pushToTag(st, Head(tags), failAt # 1), Rest)
RECURSIVE PushTags(_, _, _)
PushTags(st, tags, failAt) ==
    IF tags = <<>> THEN st
    ELSE LET Rest(st1) == IF st1.err # "nil" THEN st1
                          ELSE PushTags(st1, Tail(tags), failAt - 1)
         IN Bind(pushToTag(st, Head(tags), failAt # 1), Rest)

\* the tag of the store's own ref
OwnTag == "main"

\* CAS.Push; failAt = i: the remote write of the i-th tag fails, 0: none fails
Push(s, tags, failAt) ==
    LET ts == IF Len(tags) = 0 THEN <<OwnTag>> ELSE tags
    IN /\ failAt <= Len(ts)
       /\ \E st \in {PushTags([entries |-> entries[s], files |-> files[s],
                                pending |-> pending[s], dirty |-> dirty[s],
                                registry |-> registry, sha |-> sha, err |-> "nil"],
                               ts, failAt)} :
              /\ entries' = [entries EXCEPT ![s] = st.entries]
              /\ files' = [files EXCEPT ![s] = st.files]
              /\ pending' = [pending EXCEPT ![s] = st.pending]
              /\ dirty' = [dirty EXCEPT ![s] = st.dirty]
              /\ registry' = st.registry
              /\ sha' = st.sha
              /\ ret' = [op |-> "Push", s |-> s, tags |-> ts, err |-> st.err,
                         failAt |-> failAt]
       /\ UNCHANGED indexFile

\* the blobs.putWithDigest loop of CAS.Pull
StoreObjects_None(fs, objects, S) == fs
RECURSIVE StoreObjects(_, _, _)
StoreObjects(fs, objects, S) ==
    IF S = {} THEN fs
    ELSE LET d == CHOOSE x \in S : TRUE
         IN StoreObjects(putWithDigest(fs, d, objects[d]).files, objects, S \ {d})

\* CAS.Pull; netOK: the image can be fetched
Pull(s, netOK) ==
    \E r \in {IF netOK /\ OwnTag \in DOMAIN registry
               THEN RemotePull(registry[OwnTag].image, loadPrefixHashes(entries[s]))
               ELSE [err |-> "fetch image"]} :
       IF r.err # "nil"
       THEN /\ ret' = [op |-> "Pull", s |-> s, err |-> r.err]
            /\ UNCHANGED <<entries, files, pending, dirty, indexFile, registry, sha>>
       ELSE \E fs \in {StoreObjects(files[s], r.objects, DOMAIN r.objects)},
               e1 \in {savePrefixHashes(entries[s], r.prefixes)} :
               LET g == IF r.rootHash \in DOMAIN r.objects
                        THEN [err |-> "nil", data |-> r.objects[r.rootHash]]
                        ELSE blobGet(fs, r.rootHash)
               IN /\ files' = [files EXCEPT ![s] = fs]
                  /\ UNCHANGED <<pending, registry, sha>>
                  /\ IF g.err # "nil"
                     THEN /\ entries' = [entries EXCEPT ![s] = e1]
                          /\ dirty' = [dirty EXCEPT ![s] = TRUE]
                          /\ ret' = [op |-> "Pull", s |-> s, err |-> "load index",
                                     fetched |-> r.fetched]
                          /\ UNCHANGED indexFile
                     ELSE \E e2 \in {load(e1, g.data)} :
                             /\ entries' = [entries EXCEPT ![s] = e2]
                             /\ indexFile' = [indexFile EXCEPT ![s] = serialize(e2)]
                             /\ dirty' = [dirty EXCEPT ![s] = FALSE]
                             /\ ret' = [op |-> "Pull", s |-> s, err |-> "nil",
                                        fetched |-> r.fetched]

\* CAS.Pull as Open calls it on the instance it has just built: e is the
\* index loaded from the cache directory, fs the blob directory, file the
\* index file; the result is what Pull leaves in them
AutoPullNever == "never"
AutoPullAlways == "always"
AutoPullMissing == "missing"

PullOnOpen(e, fs, file, netOK) ==
    LET Stored(r) ==
            LET Loaded(fs1) ==
                    LET e1 == savePrefixHashes(e, r.prefixes)
                        g == IF r.rootHash \in DOMAIN r.objects
                             THEN [err |-> "nil", data |-> r.objects[r.rootHash]]
                             ELSE blobGet(fs1, r.rootHash)
                    IN IF g.err # "nil"
                       THEN [err |-> "load index", entries |-> e1, files |-> fs1,
                             indexFile |-> file, dirty |-> TRUE]
                       ELSE LET Synced(e2) == [err |-> "nil", entries |-> e2, files |-> fs1,
                                               indexFile |-> serialize(e2), dirty |-> FALSE]
                            IN Bind(load(e1, g.data), Synced)
            IN IF r.err # "nil"
               THEN [err |-> r.err, entries |-> e, files |-> fs, indexFile |-> file,
                     dirty |-> FALSE]
               ELSE Bind(StoreObjects(fs, r.objects, DOMAIN r.objects), Loaded)
    IN Bind(IF netOK /\ OwnTag \in DOMAIN registry
            THEN RemotePull(registry[OwnTag].image, loadPrefixHashes(e))
            ELSE [err |-> "fetch image"], Stored)

\* Open with the options Remote (hasRemote: it is not empty) and AutoPull, of
\* a new instance on the cache directory and ref of s
OpenWith(s, hasRemote, autoPull, netOK) ==
    \E e \in {loadLocalIndex(indexFile[s])} :
    \E pulls \in {hasRemote /\ (autoPull = AutoPullAlways \/ autoPull = AutoPullMissing)} :
    \E p \in {IF pulls THEN PullOnOpen(e, files[s], indexFile[s], netOK)
              ELSE [err |-> "nil", entries |-> e, files |-> files[s],
                    indexFile |-> indexFile[s], dirty |-> FALSE]} :
        /\ entries' = [entries EXCEPT ![s] = p.entries]
        /\ files' = [files EXCEPT ![s] = p.files]
        /\ indexFile' = [indexFile EXCEPT ![s] = p.indexFile]
        /\ dirty' = [dirty EXCEPT ![s] = p.dirty]
        /\ pending' = [pending EXCEPT ![s] = {}]
        /\ ret' = [op |-> "Open", s |-> s, err |-> "nil", remote |-> hasRemote,
                   autoPull |-> autoPull, hadIndex |-> indexFile[s] # NoFile,
                   pulled |-> pulls, pullErr |-> p.err]
        /\ UNCHANGED <<registry, sha>>

(***************************************************************************)
(* Spec: store A writes and pushes, store B pulls from the same ref into   *)
(* its own cache directory.                                                *)
(***************************************************************************)
KeyPrefixLow == prefixHashKeyPrefix \o ShardLow   \* "_prefix/0a"

Writers == {"A"}
Pullers == {"A", "B"}
Keys == {KeyAB, KeyZ}
ReservedKeys == {KeyReserved, KeyPrefixLow}
Data == {DataX, DataY, DataEmpty}
TagLists == {<<>>}

Step == ops < MaxOps /\ ops' = ops + 1 /\ UNCHANGED <<proc, workspace>>

DoPut == \E s \in Writers :
             \/ \E k \in Keys, x \in Data : Step /\ Put(s, k, x, NoMeta)
             \/ \E k \in ReservedKeys : Step /\ Put(s, k, DataX, NoMeta)
DoDelete == \E s \in Stores, k \in Keys : Step /\ Delete(s, k)
DoClear == \E s \in Writers : Step /\ Clear(s)
DoGC == \E s \in Stores : Step /\ GC(s)
DoSync == \E s \in Writers : Step /\ Sync(s)
\* number of images written to the registry so far
RECURSIVE SumRev(_)
SumRev(S) ==
    IF S = {} THEN 0
    ELSE LET tag == CHOOSE x \in S : TRUE IN registry[tag].rev + SumRev(S \ {tag})
Pushed == SumRev(DOMAIN registry)

DoPush == \E s \in Writers, tags \in TagLists, failAt \in 0..1 :
              Step /\ Pushed < MaxPush /\ Push(s, tags, failAt)
DoPull == \E s \in Pullers, netOK \in BOOLEAN : Step /\ Pull(s, netOK)

Next == DoPut \/ DoDelete \/ DoClear \/ DoGC \/ DoSync \/ DoPush \/ DoPull

Spec == Init /\ [][Next]_vars

(***************************************************************************)
(* LocalSpec: histories of the local operations on one store.              *)
(***************************************************************************)
LocalStores == {"A"}
LocalKeys == {KeyAB, KeyAC, KeyZ, KeyReserved}
LocalData == {DataX, DataY, DataEmpty}
LocalMetas == {NoMeta}

LocalStep == ops < MaxLocalOps /\ ops' = ops + 1 /\ UNCHANGED <<proc, workspace>>

LocalPut == \E s \in LocalStores, k \in LocalKeys, x \in LocalData, m \in LocalMetas :
                LocalStep /\ Put(s, k, x, m)
LocalDelete == \E s \in LocalStores, k \in LocalKeys : LocalStep /\ Delete(s, k)
LocalClear == \E s \in LocalStores : LocalStep /\ Clear(s)
LocalGC == \E s \in LocalStores : LocalStep /\ GC(s)
LocalSync == \E s \in LocalStores : LocalStep /\ Sync(s)

LocalNext == LocalPut \/ LocalDelete \/ LocalClear \/ LocalGC \/ LocalSync

LocalSpec == Init /\ [][LocalNext]_vars

(***************************************************************************)
(* HashSpec: two stores filled by Put and Delete, with keys that hold the  *)
(* separator bytes of the hash items.                                      *)
(***************************************************************************)
KeyEmpty == <<>>             \* ""
KeyA == <<97>>               \* "a"
KeyB == <<98>>               \* "b"
\* "a\x00sha256:0a1\x001\nb": "a", then what follows the key in the item of
\* DataX, a newline, "b"
KeyItem == KeyA \o NulSep \o DigestString(Sha256(DataX)) \o NulSep \o Decimal(DataX.len)
               \o NewlineSep \o KeyB

HashKeys == {KeyA, KeyB, KeyItem}
HashData == {DataX, DataY}
HashMetas == {NoMeta, MetaA}
HashPrefixes == {KeyEmpty, KeyA, KeyB}

HashStep == ops < MaxHashOps /\ ops' = ops + 1 /\ UNCHANGED <<proc, workspace>>

HashPut == \E s \in Stores, k \in HashKeys, x \in HashData, m \in HashMetas :
               HashStep /\ Put(s, k, x, m)
HashDelete == \E s \in Stores, k \in HashKeys : HashStep /\ Delete(s, k)

HashNext == HashPut \/ HashDelete

HashSpec == Init /\ [][HashNext]_vars

(***************************************************************************)
(* RoundSpec: store A does Put, Delete and successful Push only; store B,  *)
(* on the same ref with its own cache directory, does Pull, Delete and GC. *)
(***************************************************************************)
RoundPut == \E k \in Keys, x \in Data : Step /\ Put("A", k, x, NoMeta)
RoundDelete == \E k \in Keys : Step /\ Delete("A", k)
RoundPush == Step /\ Pushed < MaxPush /\ Push("A", <<>>, 0)
RoundPull == \E netOK \in BOOLEAN : Step /\ Pull("B", netOK)
RoundDeleteB == \E k \in Keys : Step /\ Delete("B", k)
RoundGCB == Step /\ GC("B")

RoundNext == RoundPut \/ RoundDelete \/ RoundPush \/ RoundPull \/ RoundDeleteB \/ RoundGCB

RoundSpec == Init /\ [][RoundNext]_vars

(***************************************************************************)
(* PersistSpec: one store over the instances opened on its cache           *)
(* directory: the calls of the Store interface, Close, and Open of the     *)
(* next instance.                                                          *)
(***************************************************************************)
PersistStores == {"A"}
PersistKeys == {KeyAB, KeyZ}
PersistData == {DataX, DataEmpty}
PersistMetas == {NoMeta, MetaA}

PersistStep == ops < MaxPersistOps /\ ops' = ops + 1 /\ UNCHANGED <<proc, workspace>>

PersistPut == \E s \in PersistStores, k \in PersistKeys, x \in PersistData, m \in PersistMetas :
                  PersistStep /\ Put(s, k, x, m)
PersistDelete == \E s \in PersistStores, k \in PersistKeys : PersistStep /\ Delete(s, k)
PersistClear == \E s \in PersistStores : PersistStep /\ Clear(s)
PersistSync == \E s \in PersistStores : PersistStep /\ Sync(s)
PersistClose == \E s \in PersistStores : PersistStep /\ Close(s)
PersistOpen == \E s \in PersistStores : PersistStep /\ Open(s)
PersistPush == \E s \in PersistStores, failAt \in 0..1 :
                   PersistStep /\ Pushed < MaxPush /\ Push(s, <<>>, failAt)
PersistPull == \E s \in PersistStores, netOK \in BOOLEAN : PersistStep /\ Pull(s, netOK)

PersistNext ==
    \/ PersistPut \/ PersistDelete \/ PersistClear \/ PersistSync
    \/ PersistClose \/ PersistOpen \/ PersistPush \/ PersistPull

PersistSpec == Init /\ [][PersistNext]_vars

(***************************************************************************)
(* RepullSpec: store A puts one key, clears and pushes; store B, on the    *)
(* same ref with its own cache directory, pulls and collects garbage.      *)
(***************************************************************************)
RepullStep == ops < MaxRepullOps /\ ops' = ops + 1 /\ UNCHANGED <<proc, workspace>>

RepullPut == RepullStep /\ Put("A", KeyZ, DataX, NoMeta)
RepullClear == RepullStep /\ Clear("A")
RepullPush == RepullStep /\ Pushed < MaxPush /\ Push("A", <<>>, 0)
RepullPull == \E netOK \in BOOLEAN : RepullStep /\ Pull("B", netOK)
RepullGC == RepullStep /\ GC("B")

RepullNext == RepullPut \/ RepullClear \/ RepullPush \/ RepullPull \/ RepullGC

RepullSpec == Init /\ [][RepullNext]_vars

(***************************************************************************)
(* TagSpec: one store puts, and pushes to its own tag or to a list of two  *)
(* tags; the remote write of any one tag of a Push may fail.               *)
(***************************************************************************)
RelTag == "rel"
TagStores == {"A"}
TagKeys == {KeyAB, KeyZ}
TagData == {DataX, DataY}
TagSpecLists == {<<>>, <<OwnTag, RelTag>>}

TagStep == ops < MaxTagOps /\ ops' = ops + 1 /\ UNCHANGED <<proc, workspace>>

TagPut == \E s \in TagStores, k \in TagKeys, x \in TagData : TagStep /\ Put(s, k, x, NoMeta)
TagGC == \E s \in TagStores : TagStep /\ GC(s)
TagPush == \E s \in TagStores, tags \in TagSpecLists, failAt \in 0..2 :
               TagStep /\ Pushed < MaxTagPush /\ Push(s, tags, failAt)

TagNext == TagPut \/ TagGC \/ TagPush

TagSpec == Init /\ [][TagNext]_vars

\* UnpackLayer on the first size bytes of the bytes of packed; the loop is at
\* the start of record n with pos bytes consumed.  bytes.Reader.Read copies
\* what is left, up to len(b), and reports io.EOF only when nothing is left;
\* binary.Read reads the 8 bytes with io.ReadFull.
Min(a, b) == IF a < b THEN a ELSE b
RECURSIVE UnpackLoop(_, _, _, _, _)
UnpackLoop(packed, size, n, pos, result) ==
    IF size - pos <= 0 THEN [err |-> "nil", blobs |-> result]
    ELSE LET rec == packed[n]
             gotDigest == Min(digestLen, size - pos)
             digest == IF gotDigest = digestLen THEN rec.digest
                       ELSE [short |-> rec.digest, read |-> gotDigest]
             afterDigest == pos + gotDigest
             afterLen == afterDigest + lenBufLen
             gotData == Min(rec.length, size - afterLen)
             blobData == IF gotData = rec.length THEN rec.data
                         ELSE [short |-> rec.data, read |-> gotData]
         IN IF size - afterDigest = 0 THEN [err |-> "read length: EOF"]
            ELSE IF size - afterDigest < lenBufLen
            THEN [err |-> "read length: unexpected EOF"]
            ELSE IF size - afterLen = 0 THEN [err |-> "read data: EOF"]
            ELSE UnpackLoop(packed, size, n + 1, afterLen + gotData,
                            MapSet(result, digest, blobData))
UnpackLayerOf(packed, size) == UnpackLoop(packed, size, 1, 0, EmptyMap)

(***************************************************************************)
(* CodecSpec: PackLayer on a map from digests to bytes, then UnpackLayer   *)
(* on the bytes it returned.                                               *)
(***************************************************************************)
CodecDigests == {Sha256(DataX), Sha256(DataY), Sha256(DataEmpty)}
CodecData == {DataX, DataY, DataEmpty}
CodecMaps == UNION {[S -> CodecData] : S \in SUBSET CodecDigests}

CodecPack ==
    \E blobs \in CodecMaps :
        /\ ret.op = "Open"
        /\ \E packed \in {PackLayer(blobs)} :
               ret' = [op |-> "PackLayer", err |-> "nil", blobs |-> blobs,
                       packed |-> packed, size |-> PackedLen(packed, Len(packed))]
        /\ UNCHANGED <<entries, files, pending, dirty, indexFile, registry, sha, ops, proc, workspace>>

CodecUnpack ==
    /\ ret.op = "PackLayer"
    /\ \E out \in {UnpackLayer(ret.packed)} :
           ret' = [op |-> "UnpackLayer", err |-> out.err,
                   blobs |-> ret.blobs, out |-> out]
    /\ UNCHANGED <<entries, files, pending, dirty, indexFile, registry, sha, ops, proc, workspace>>

\* UnpackLayer on a proper prefix of the bytes PackLayer returned
CodecUnpackPrefix ==
    /\ ret.op = "PackLayer"
    /\ \E size \in 0..(ret.size - 1) :
       \E out \in {UnpackLayerOf(ret.packed, size)} :
           ret' = [op |-> "UnpackLayerOf", err |-> out.err, blobs |-> ret.blobs,
                   packed |-> ret.packed, size |-> size, out |-> out]
    /\ UNCHANGED <<entries, files, pending, dirty, indexFile, registry, sha, ops, proc, workspace>>

CodecNext == CodecPack \/ CodecUnpack \/ CodecUnpackPrefix

CodecSpec == Init /\ [][CodecNext]_vars

(***************************************************************************)
(* PlanSpec: BuildLayerPlan on maps from shard names to byte counts around *)
(* LayerMinSize, LayerSoftMax and twice LayerSoftMax.                      *)
(***************************************************************************)
MiB == 1024 * 1024
PlanShards == {<<48, 97>>, <<101, 51>>, <<102, 49>>, <<102, 102>>}
PlanSizes == {0, LayerMinSize - 1, LayerMinSize, 8 * MiB, LayerSoftMax + 1,
              2 * LayerSoftMax - LayerMinSize + 1, 2 * LayerSoftMax - LayerMinSize + 2}
PlanInputs == UNION {[S -> PlanSizes] : S \in SUBSET PlanShards}

PlanBuild ==
    \E prefixSizes \in PlanInputs :
        /\ ret.op # "BuildLayerPlan"
        /\ \E plan \in {BuildLayerPlan(prefixSizes)} :
               ret' = [op |-> "BuildLayerPlan", err |-> "nil", prefixSizes |-> prefixSizes,
                       plan |-> plan]
        /\ UNCHANGED <<entries, files, pending, dirty, indexFile, registry, sha, ops, proc, workspace>>

PlanNext == PlanBuild

PlanSpec == Init /\ [][PlanNext]_vars

(***************************************************************************)
(* RetrySpec: one call of retry(ctx, 3, fn) by goroutine "r".  fn is       *)
(* remote.Write or remote.Image called without the context, so its result  *)
(* does not depend on ctx; the caller may cancel ctx before retry starts   *)
(* or at any moment until it returns.                                      *)
(***************************************************************************)
maxAttempts == 3
ErrCanceled == "context canceled"
FnResults == {"nil", "net error 1", "net error 2"}

Returned(g) == g \in DOMAIN proc /\ proc[g].pc = "returned"

\* retry is called
RetryCall ==
    /\ proc = EmptyMap
    /\ \E done \in BOOLEAN :
           proc' = [g \in {"r"} |->
                       [pc |-> "loop", i |-> 0, lastErr |-> "nil", ctxDone |-> done,
                        timer |-> FALSE, calls |-> <<>>, err |-> "nil"]]
    /\ UNCHANGED <<entries, files, pending, dirty, indexFile, registry, sha, ret, ops, workspace>>

\* the caller's context is cancelled
CtxCancel ==
    /\ "r" \in DOMAIN proc
    /\ proc.r.pc # "returned"
    /\ ~proc.r.ctxDone
    /\ proc' = [proc EXCEPT !.r.ctxDone = TRUE]
    /\ UNCHANGED <<entries, files, pending, dirty, indexFile, registry, sha, ret, ops, workspace>>

\* the loop of retry running one iteration more than maxAttempts
RetryLoop_Extra ==
    /\ "r" \in DOMAIN proc
    /\ proc.r.pc = "loop"
    /\ proc' = IF proc.r.i <= maxAttempts
               THEN [proc EXCEPT !.r.pc = "fn",
                                 !.r.calls = Append(@, [ctxDone |-> proc.r.ctxDone,
                                                        err |-> "running"])]
               ELSE [proc EXCEPT !.r.pc = "returned", !.r.err = proc.r.lastErr]
    /\ UNCHANGED <<entries, files, pending, dirty, indexFile, registry, sha, ret, ops, workspace>>

\* for i := range maxAttempts { result, err := fn() ... } return zero, lastErr
RetryLoop ==
    /\ "r" \in DOMAIN proc
    /\ proc.r.pc = "loop"
    /\ proc' = IF proc.r.i < maxAttempts
               THEN [proc EXCEPT !.r.pc = "fn",
                                 !.r.calls = Append(@, [ctxDone |-> proc.r.ctxDone,
                                                        err |-> "running"])]
               ELSE [proc EXCEPT !.r.pc = "returned", !.r.err = proc.r.lastErr]
    /\ UNCHANGED <<entries, files, pending, dirty, indexFile, registry, sha, ret, ops, workspace>>

\* fn returns: success ends retry, a failure is kept in lastErr and is
\* followed by the backoff select unless it was the last attempt
RetryFn ==
    /\ "r" \in DOMAIN proc
    /\ proc.r.pc = "fn"
    /\ \E err \in FnResults :
           \E calls \in {[proc.r.calls EXCEPT ![Len(proc.r.calls)].err = err]} :
               proc' = IF err = "nil"
                       THEN [proc EXCEPT !.r.pc = "returned", !.r.err = "nil", !.r.calls = calls]
                       ELSE IF proc.r.i < maxAttempts - 1
                       THEN [proc EXCEPT !.r.pc = "select", !.r.lastErr = err,
                                         !.r.timer = FALSE, !.r.calls = calls]
                       ELSE [proc EXCEPT !.r.pc = "loop", !.r.lastErr = err,
                                         !.r.i = @ + 1, !.r.calls = calls]
    /\ UNCHANGED <<entries, files, pending, dirty, indexFile, registry, sha, ret, ops, workspace>>

\* the channel of time.After(delay) becomes ready
RetryTimer ==
    /\ "r" \in DOMAIN proc
    /\ proc.r.pc = "select"
    /\ ~proc.r.timer
    /\ proc' = [proc EXCEPT !.r.timer = TRUE]
    /\ UNCHANGED <<entries, files, pending, dirty, indexFile, registry, sha, ret, ops, workspace>>

\* select { case <-ctx.Done(): return zero, ctx.Err(); case <-time.After(delay): }
\* takes one of the cases that are ready
RetrySelect ==
    /\ "r" \in DOMAIN proc
    /\ proc.r.pc = "select"
    /\ \/ /\ proc.r.ctxDone
          /\ proc' = [proc EXCEPT !.r.pc = "returned", !.r.err = ErrCanceled]
       \/ /\ proc.r.timer
          /\ proc' = [proc EXCEPT !.r.pc = "loop", !.r.i = @ + 1]
    /\ UNCHANGED <<entries, files, pending, dirty, indexFile, registry, sha, ret, ops, workspace>>

RetryNext == RetryCall \/ CtxCancel \/ RetryLoop \/ RetryFn \/ RetryTimer \/ RetrySelect

RetrySpec == Init /\ [][RetryNext]_vars

(***************************************************************************)
(* OpenSpec: store A puts, syncs and pushes; store B, on the same ref with *)
(* its own cache directory, puts, syncs and is opened again with each      *)
(* AutoPull mode.                                                          *)
(***************************************************************************)
AutoPullModes == {AutoPullNever, AutoPullAlways, AutoPullMissing}

OpenStep == ops < MaxOpenOps /\ ops' = ops + 1 /\ UNCHANGED <<proc, workspace>>

OpenPut == \E s \in Stores, k \in Keys : OpenStep /\ Put(s, k, DataX, NoMeta)
OpenSync == OpenStep /\ Sync("B")
OpenPush == OpenStep /\ Pushed < MaxPush /\ Push("A", <<>>, 0)
OpenOpen == \E hasRemote \in BOOLEAN, autoPull \in AutoPullModes, netOK \in BOOLEAN :
                OpenStep /\ OpenWith("B", hasRemote, autoPull, netOK)

OpenNext == OpenPut \/ OpenSync \/ OpenPush \/ OpenOpen

OpenSpec == Init /\ [][OpenNext]_vars

(***************************************************************************)
(* RaceSpec: goroutines calling Put, GC and Push on store A at the same    *)
(* time.  CAS holds no lock: entries and pending are sync.Maps, the blob   *)
(* directory is the file system, so a call is a sequence of steps, each on *)
(* one of them, and the steps of different goroutines interleave.          *)
(***************************************************************************)
Putters == {"p", "q"}
Collector == "g"
Pusher == "u"
RaceKey == [g \in Putters |-> IF g = "p" THEN KeyAB ELSE KeyZ]
RaceData == [g \in Putters |-> IF g = "p" THEN {DataX, DataY} ELSE {DataX}]

At(g, pc) == g \in DOMAIN proc /\ proc[g].pc = pc
RaceCall == ops < MaxRaceOps /\ ops' = ops + 1 /\ UNCHANGED workspace

\* CAS.Put is called with a key that is not reserved
RacePutCall ==
    \E g \in Putters : \E data \in RaceData[g] :
        /\ g \notin DOMAIN proc
        /\ RaceCall
        /\ proc' = MapSet(proc, g, [op |-> "Put", pc |-> "stat", key |-> RaceKey[g],
                                    data |-> data, digest |-> Sum256(sha, data),
                                    isNew |-> FALSE, wrote |-> FALSE])
        /\ UNCHANGED <<entries, files, pending, dirty, indexFile, registry, sha, ret>>

\* putWithDigest: os.Stat(path)
RacePutStat ==
    \E g \in Putters :
        /\ At(g, "stat")
        /\ proc' = [proc EXCEPT ![g].pc = IF proc[g].digest \in DOMAIN files["A"]
                                           THEN "store" ELSE "create"]
        /\ UNCHANGED <<entries, files, pending, dirty, indexFile, registry, sha, ret, ops, workspace>>

\* putWithDigest: os.WriteFile opens the file with O_CREATE|O_TRUNC, which
\* leaves a file of 0 bytes
RacePutCreate ==
    \E g \in Putters :
        /\ At(g, "create")
        /\ files' = [files EXCEPT !["A"] = MapSet(@, proc[g].digest, DataEmpty)]
        /\ proc' = [proc EXCEPT ![g].pc = "write", ![g].wrote = TRUE, ![g].isNew = TRUE]
        /\ UNCHANGED <<entries, pending, dirty, indexFile, registry, sha, ret, ops, workspace>>

\* putWithDigest: os.WriteFile writes the bytes and closes the file; a file
\* unlinked in between stays unlinked
RacePutWrite ==
    \E g \in Putters :
        /\ At(g, "write")
        /\ files' = [files EXCEPT !["A"] = IF proc[g].digest \in DOMAIN @
                                           THEN MapSet(@, proc[g].digest, proc[g].data)
                                           ELSE @]
        /\ proc' = [proc EXCEPT ![g].pc = "pend"]
        /\ UNCHANGED <<entries, pending, dirty, indexFile, registry, sha, ret, ops, workspace>>

\* blobStore.Put: if isNew { b.pending.Store(digest, struct{}{}) }
RacePutPend ==
    \E g \in Putters :
        /\ At(g, "pend")
        /\ pending' = [pending EXCEPT !["A"] = @ \cup {proc[g].digest}]
        /\ proc' = [proc EXCEPT ![g].pc = "store"]
        /\ UNCHANGED <<entries, files, dirty, indexFile, registry, sha, ret, ops, workspace>>

\* CAS.Put: s.entries.Store(key, info); s.dirty.Store(true); return nil
RacePutStore ==
    \E g \in Putters :
        /\ At(g, "store")
        /\ entries' = [entries EXCEPT !["A"] =
                           MapSet(@, proc[g].key, [d |-> proc[g].digest,
                                                   s |-> proc[g].data.len, m |-> NoMeta])]
        /\ dirty' = [dirty EXCEPT !["A"] = TRUE]
        /\ proc' = [proc EXCEPT ![g].pc = "returned"]
        /\ ret' = [op |-> "Put", s |-> "A", key |-> proc[g].key, err |-> "nil",
                   data |-> proc[g].data, wrote |-> proc[g].wrote, by |-> g]
        /\ UNCHANGED <<files, pending, indexFile, registry, sha, ops, workspace>>

\* CAS.GC is called
RaceGCCall ==
    /\ Collector \notin DOMAIN proc
    /\ RaceCall
    /\ proc' = MapSet(proc, Collector, [op |-> "GC", pc |-> "range", referenced |-> {},
                                        todo |-> {}, removed |-> 0])
    /\ UNCHANGED <<entries, files, pending, dirty, indexFile, registry, sha, ret>>

\* CAS.GC: s.entries.Range collects the referenced hashes
RaceGCRange ==
    /\ At(Collector, "range")
    /\ proc' = [proc EXCEPT ![Collector].pc = "walk",
                            ![Collector].referenced = Referenced(entries["A"])]
    /\ UNCHANGED <<entries, files, pending, dirty, indexFile, registry, sha, ret, ops, workspace>>

\* CAS.GC: filepath.WalkDir reads the blob directory
RaceGCWalk ==
    /\ At(Collector, "walk")
    /\ proc' = [proc EXCEPT ![Collector].pc = "visit",
                            ![Collector].todo = DOMAIN files["A"]]
    /\ UNCHANGED <<entries, files, pending, dirty, indexFile, registry, sha, ret, ops, workspace>>

\* CAS.GC: the callback of WalkDir on one file: os.Remove unless referenced
RaceGCVisit ==
    /\ At(Collector, "visit")
    /\ \E d \in proc[Collector].todo :
           \E gone \in {d \notin proc[Collector].referenced /\ d \in DOMAIN files["A"]} :
               /\ files' = [files EXCEPT !["A"] = IF gone THEN MapDel(@, d) ELSE @]
               /\ proc' = [proc EXCEPT ![Collector].todo = @ \ {d},
                                       ![Collector].removed = IF gone THEN @ + 1 ELSE @]
    /\ UNCHANGED <<entries, pending, dirty, indexFile, registry, sha, ret, ops, workspace>>

\* CAS.GC: return removed, err
RaceGCReturn ==
    /\ At(Collector, "visit")
    /\ proc[Collector].todo = {}
    /\ proc' = [proc EXCEPT ![Collector].pc = "returned"]
    /\ ret' = [op |-> "GC", s |-> "A", err |-> "nil", removed |-> proc[Collector].removed]
    /\ UNCHANGED <<entries, files, pending, dirty, indexFile, registry, sha, ops, workspace>>

\* CAS.Push is called with no tags
RacePushCall ==
    /\ Pusher \notin DOMAIN proc
    /\ RaceCall
    /\ Pushed < MaxPush
    /\ proc' = MapSet(proc, Pusher, [op |-> "Push", pc |-> "send", err |-> "nil"])
    /\ UNCHANGED <<entries, files, pending, dirty, indexFile, registry, sha, ret>>

\* pushToTag up to the return of the remote Push: the index is serialized and
\* put, the pending blobs are read, the image is built and written
RacePushSend ==
    /\ At(Pusher, "send")
    /\ \E netOK \in BOOLEAN :
       \E indexData \in {serialize(entries["A"])} :
       \E b \in {blobPut(sha, files["A"], pending["A"], indexData)} :
           /\ sha' = Sum256Table(sha, indexData)
           /\ files' = [files EXCEPT !["A"] = b.files]
           /\ pending' = [pending EXCEPT !["A"] = b.pending]
           /\ IF netOK
              THEN \E objects \in {PushObjects(b.files, b.pending, b.digest, indexData)} :
                   \E r \in {RemotePush(b.digest, objects, loadPrefixHashes(entries["A"]))} :
                       /\ registry' = MapSet(registry, OwnTag,
                                             [image |-> r.image,
                                              rev |-> IF OwnTag \in DOMAIN registry
                                                      THEN registry[OwnTag].rev + 1
                                                      ELSE 1])
                       /\ proc' = [proc EXCEPT ![Pusher] =
                                       [op |-> "Push", pc |-> "clear", err |-> "nil",
                                        image |-> r.image, prefixes |-> r.prefixes]]
                       /\ UNCHANGED ret
              ELSE /\ proc' = [proc EXCEPT ![Pusher].pc = "returned",
                                           ![Pusher].err = "push image"]
                   /\ ret' = [op |-> "Push", s |-> "A", tags |-> <<OwnTag>>,
                              err |-> "push image", failAt |-> 1]
                   /\ UNCHANGED registry
    /\ UNCHANGED <<entries, dirty, indexFile, ops, workspace>>

\* pushToTag after the remote Push: s.savePrefixHashes(newPrefixes);
\* s.blobs.pending = sync.Map{}; return nil
RacePushClear ==
    /\ At(Pusher, "clear")
    /\ entries' = [entries EXCEPT !["A"] = savePrefixHashes(@, proc[Pusher].prefixes)]
    /\ dirty' = [dirty EXCEPT !["A"] = TRUE]
    /\ pending' = [pending EXCEPT !["A"] = {}]
    /\ proc' = [proc EXCEPT ![Pusher].pc = "returned"]
    /\ ret' = [op |-> "Push", s |-> "A", tags |-> <<OwnTag>>, err |-> "nil", failAt |-> 0]
    /\ UNCHANGED <<files, indexFile, registry, sha, ops, workspace>>

RacePut ==
    \/ RacePutCall \/ RacePutStat \/ RacePutCreate \/ RacePutWrite
    \/ RacePutPend \/ RacePutStore
RaceGC == RaceGCCall \/ RaceGCRange \/ RaceGCWalk \/ RaceGCVisit \/ RaceGCReturn
RacePush == RacePushCall \/ RacePushSend \/ RacePushClear

RaceNext == RacePut \/ RaceGC \/ RacePush

RaceSpec == Init /\ [][RaceNext]_vars

(***************************************************************************)
(* CrashSpec: goroutines of one process call Put on store A; the process   *)
(* may die while a blob file is being written, and a new process then      *)
(* opens the same cache directory.                                         *)
(***************************************************************************)
\* every goroutine is gone; the new instance is the one Open builds
RaceCrash ==
    /\ \E g \in Putters : At(g, "write")
    /\ proc' = EmptyMap
    /\ entries' = [entries EXCEPT !["A"] = loadLocalIndex(indexFile["A"])]
    /\ pending' = [pending EXCEPT !["A"] = {}]
    /\ dirty' = [dirty EXCEPT !["A"] = FALSE]
    /\ ret' = [op |-> "Open", s |-> "A", err |-> "nil", crashed |-> TRUE]
    /\ UNCHANGED <<files, indexFile, registry, sha, ops, workspace>>

\* CAS.Sync called while no other call is in progress
CrashSync ==
    /\ \A g \in DOMAIN proc : proc[g].pc = "returned"
    /\ RaceCall
    /\ UNCHANGED <<proc, workspace>>
    /\ Sync("A")

CrashNext == RacePut \/ CrashSync \/ RaceCrash

CrashSpec == Init /\ [][CrashNext]_vars

(***************************************************************************)
(* SyncSpec: goroutines calling Put, Delete and Sync on store A at the     *)
(* same time.                                                              *)
(***************************************************************************)
Deleter == "d"
Syncer == "y"

\* CAS.Delete is called
RaceDeleteCall ==
    /\ Deleter \notin DOMAIN proc
    /\ RaceCall
    /\ proc' = MapSet(proc, Deleter, [op |-> "Delete", pc |-> "delete", key |-> KeyAB])
    /\ UNCHANGED <<entries, files, pending, dirty, indexFile, registry, sha, ret>>

\* CAS.Delete: s.entries.Delete(key)
RaceDeleteEntry ==
    /\ At(Deleter, "delete")
    /\ entries' = [entries EXCEPT !["A"] = MapDel(@, proc[Deleter].key)]
    /\ proc' = [proc EXCEPT ![Deleter].pc = "dirty"]
    /\ UNCHANGED <<files, pending, dirty, indexFile, registry, sha, ret, ops, workspace>>

\* CAS.Delete: s.dirty.Store(true)
RaceDeleteDirty ==
    /\ At(Deleter, "dirty")
    /\ dirty' = [dirty EXCEPT !["A"] = TRUE]
    /\ proc' = [proc EXCEPT ![Deleter].pc = "returned"]
    /\ ret' = [op |-> "Delete", s |-> "A", key |-> proc[Deleter].key, err |-> "nil"]
    /\ UNCHANGED <<entries, files, pending, indexFile, registry, sha, ops, workspace>>

\* CAS.Sync is called
RaceSyncCall ==
    /\ Syncer \notin DOMAIN proc
    /\ RaceCall
    /\ proc' = MapSet(proc, Syncer, [op |-> "Sync", pc |-> "load", data |-> NoFile])
    /\ UNCHANGED <<entries, files, pending, dirty, indexFile, registry, sha, ret>>

\* CAS.Sync: if !s.dirty.Load() { return nil }
RaceSyncLoad ==
    /\ At(Syncer, "load")
    /\ proc' = [proc EXCEPT ![Syncer].pc = IF dirty["A"] THEN "serialize" ELSE "returned"]
    /\ ret' = IF dirty["A"] THEN ret ELSE [op |-> "Sync", s |-> "A", err |-> "nil"]
    /\ UNCHANGED <<entries, files, pending, dirty, indexFile, registry, sha, ops, workspace>>

\* CAS.Sync: data, err := s.serialize()
RaceSyncSerialize ==
    /\ At(Syncer, "serialize")
    /\ proc' = [proc EXCEPT ![Syncer].pc = "write", ![Syncer].data = serialize(entries["A"])]
    /\ UNCHANGED <<entries, files, pending, dirty, indexFile, registry, sha, ret, ops, workspace>>

\* CAS.Sync: os.WriteFile(indexPath, data, 0644)
RaceSyncWrite ==
    /\ At(Syncer, "write")
    /\ indexFile' = [indexFile EXCEPT !["A"] = proc[Syncer].data]
    /\ proc' = [proc EXCEPT ![Syncer].pc = "clear"]
    /\ UNCHANGED <<entries, files, pending, dirty, registry, sha, ret, ops, workspace>>

\* CAS.Sync: s.dirty.Store(false); return nil
RaceSyncClear ==
    /\ At(Syncer, "clear")
    /\ dirty' = [dirty EXCEPT !["A"] = FALSE]
    /\ proc' = [proc EXCEPT ![Syncer].pc = "returned"]
    /\ ret' = [op |-> "Sync", s |-> "A", err |-> "nil"]
    /\ UNCHANGED <<entries, files, pending, indexFile, registry, sha, ops, workspace>>

RaceDelete == RaceDeleteCall \/ RaceDeleteEntry \/ RaceDeleteDirty
RaceSync ==
    \/ RaceSyncCall \/ RaceSyncLoad \/ RaceSyncSerialize \/ RaceSyncWrite
    \/ RaceSyncClear

SyncNext == RacePut \/ RaceDelete \/ RaceSync

SyncSpec == Init /\ [][SyncNext]_vars

(***************************************************************************)
(* ReadSpec: goroutines calling Put and Get on store A at the same time.   *)
(***************************************************************************)
Getter == "t"

\* CAS.Get is called
RaceGetCall ==
    \E key \in {KeyAB, KeyZ} :
        /\ Getter \notin DOMAIN proc
        /\ RaceCall
        /\ proc' = MapSet(proc, Getter, [op |-> "Get", pc |-> "load", key |-> key,
                                         digest |-> NoFile])
        /\ UNCHANGED <<entries, files, pending, dirty, indexFile, registry, sha, ret>>

\* CAS.Get: v, ok := s.entries.Load(key); if !ok { return nil, ErrNotFound }
RaceGetLoad ==
    /\ At(Getter, "load")
    /\ IF proc[Getter].key \in DOMAIN entries["A"]
       THEN /\ proc' = [proc EXCEPT ![Getter].pc = "read",
                                    ![Getter].digest = entries["A"][proc[Getter].key].d]
            /\ UNCHANGED ret
       ELSE /\ proc' = [proc EXCEPT ![Getter].pc = "returned"]
            /\ ret' = [op |-> "Get", s |-> "A", key |-> proc[Getter].key,
                       err |-> "ErrNotFound"]
    /\ UNCHANGED <<entries, files, pending, dirty, indexFile, registry, sha, ops, workspace>>

\* blobStore.Get: os.ReadFile(b.blobPath(digest))
RaceGetRead ==
    /\ At(Getter, "read")
    /\ \E g \in {blobGet(files["A"], proc[Getter].digest)} :
           ret' = IF g.err = "nil"
                  THEN [op |-> "Get", s |-> "A", key |-> proc[Getter].key, err |-> "nil",
                        data |-> g.data, digest |-> proc[Getter].digest]
                  ELSE [op |-> "Get", s |-> "A", key |-> proc[Getter].key, err |-> g.err]
    /\ proc' = [proc EXCEPT ![Getter].pc = "returned"]
    /\ UNCHANGED <<entries, files, pending, dirty, indexFile, registry, sha, ops, workspace>>

RaceGet == RaceGetCall \/ RaceGetLoad \/ RaceGetRead

ReadNext == RacePut \/ RaceGet

ReadSpec == Init /\ [][ReadNext]_vars

(***************************************************************************)
(* SharedSpec: stores A and B are opened with different refs on one cache  *)
(* directory: each has its own index (index/<namespace>/<tag>.json) and    *)
(* both use the blob directory <cacheDir>/blobs/sha256, here files[A].     *)
(***************************************************************************)
SharedDir == "A"

\* CAS.Put of a store whose blob directory is SharedDir
SharedPut(s, key, data) ==
    IF HasPrefix(key, Underscore)
    THEN /\ ret' = [op |-> "Put", s |-> s, key |-> key, err |-> "ErrReservedKey"]
         /\ UNCHANGED <<entries, files, pending, dirty, indexFile, registry, sha>>
    ELSE \E b \in {blobPut(sha, files[SharedDir], pending[s], data)} :
            /\ files' = [files EXCEPT ![SharedDir] = b.files]
            /\ pending' = [pending EXCEPT ![s] = b.pending]
            /\ entries' = [entries EXCEPT ![s] =
                               MapSet(@, key, [d |-> b.digest, s |-> data.len, m |-> NoMeta])]
            /\ dirty' = [dirty EXCEPT ![s] = TRUE]
            /\ ret' = [op |-> "Put", s |-> s, key |-> key, err |-> "nil", data |-> data,
                       wrote |-> b.wrote, dir |-> SharedDir]
            /\ UNCHANGED <<indexFile, registry, sha>>

\* CAS.GC of a store whose blob directory is SharedDir
SharedGC(s) ==
    \E keep \in {(DOMAIN files[SharedDir]) \cap Referenced(entries[s])} :
        /\ files' = [files EXCEPT ![SharedDir] = [d \in keep |-> files[SharedDir][d]]]
        /\ ret' = [op |-> "GC", s |-> s, err |-> "nil", dir |-> SharedDir,
                   removed |-> Cardinality((DOMAIN files[SharedDir]) \ keep)]
        /\ UNCHANGED <<entries, pending, dirty, indexFile, registry, sha>>

SharedStep == ops < MaxSharedOps /\ ops' = ops + 1 /\ UNCHANGED <<proc, workspace>>

SharedDoPut == \E s \in Stores, k \in Keys \cup {KeyReserved}, x \in Data :
                   SharedStep /\ SharedPut(s, k, x)
SharedDoDelete == \E s \in Stores, k \in Keys : SharedStep /\ Delete(s, k)
SharedDoGC == \E s \in Stores : SharedStep /\ SharedGC(s)

SharedNext == SharedDoPut \/ SharedDoDelete \/ SharedDoGC

SharedSpec == Init /\ [][SharedNext]_vars

(***************************************************************************)
(* CarrySpec: store A puts, deletes, collects garbage and pushes, so that  *)
(* a blob pushed once can be removed, created again and pushed again;      *)
(* store B pulls from the same ref into its own cache directory.           *)
(***************************************************************************)
CarryStep == ops < MaxCarryOps /\ ops' = ops + 1 /\ UNCHANGED <<proc, workspace>>

CarryPut == \E x \in {DataX, DataY} : CarryStep /\ Put("A", KeyZ, x, NoMeta)
CarryDelete == CarryStep /\ Delete("A", KeyZ)
CarryGC == CarryStep /\ GC("A")
CarryPush == CarryStep /\ Pushed < MaxPush /\ Push("A", <<>>, 0)

CarryPull == \E netOK \in BOOLEAN : CarryStep /\ Pull("B", netOK)

CarryNext == CarryPut \/ CarryDelete \/ CarryGC \/ CarryPush \/ CarryPull

CarrySpec == Init /\ [][CarryNext]_vars

(***************************************************************************)
(* WorkspaceSpec: the calls of one Workspace with a local store and a      *)
(* remote.  Workspace holds w.mu for the whole of every call, so a call is *)
(* one step.                                                               *)
(***************************************************************************)
MaxWorkspaceOps == 5
Names == {"d", "e", "f"}
WritePaths == {<<"f">>, <<"d", "f">>, <<"d", "e">>, <<"d", "e", "f">>}
ReadPaths == WritePaths \cup {<<"d">>}
FilePerms == {"0644", "0600"}
WorkspaceData == {DataX, DataY}
\* the orders in which a range over a children map can yield the names
NameOrders == {o \in [1..Cardinality(Names) -> Names] : \A i, j \in DOMAIN o : o[i] = o[j] => i = j}

IsUnder(q, p) == Len(q) > Len(p) /\ SubSeq(q, 1, Len(p)) = p
Prefixes(p) == {SubSeq(p, 1, i) : i \in 0..Len(p)}
NodeOK(root) == [err |-> "nil", root |-> root]
NodeErr(err, root) == [err |-> err, root |-> root]

\* Node.markDirty: the node and, through the parent pointers, its ancestors
markDirty(root, p) ==
    [q \in DOMAIN root |-> IF q \in Prefixes(p) THEN [root[q] EXCEPT !.dirty = TRUE]
                                               ELSE root[q]]

\* the child node that ensureLoaded and decodeObject make of a tree entry:
\* its hash and mode, not loaded, not dirty, with the store
lazyNode(entry) ==
    [isDir |-> entry.isDir, perm |-> entry.perm, content |-> DataEmpty,
     hash |-> entry.hash, dirty |-> FALSE, loaded |-> FALSE, store |-> TRUE]

\* Node.ensureLoaded: a tree's children map is made anew from the object
ensureLoaded(root, store, p) ==
    LET n == root[p] IN
    IF n.loaded THEN NodeOK(root)
    ELSE IF n.hash.type = "none" \/ ~n.store
    THEN NodeOK([root EXCEPT ![p].loaded = TRUE])
    ELSE IF n.hash \notin store THEN NodeErr("failed to load node", root)
    ELSE IF n.hash.type = "blob"
    THEN NodeOK([root EXCEPT ![p].content = n.hash.content, ![p].loaded = TRUE])
    ELSE LET kept == {q \in DOMAIN root : ~IsUnder(q, p)}
             kids == {Append(p, name) : name \in DOMAIN n.hash.entries}
         IN  NodeOK([q \in kept \cup kids |->
                        IF q \in kids THEN lazyNode(n.hash.entries[q[Len(q)]])
                        ELSE IF q = p THEN [n EXCEPT !.loaded = TRUE]
                        ELSE root[q]])

\* Workspace.navigate: loads every directory on the way
RECURSIVE navigateLoop(_, _, _, _)
navigateLoop(root, store, path, i) ==
    LET current == SubSeq(path, 1, i)
        child == SubSeq(path, 1, i + 1)
        l == IF root[current].isDir THEN ensureLoaded(root, store, current)
                                    ELSE NodeOK(root)
    IN  IF i = Len(path) THEN NodeOK(root)
        ELSE IF l.err # "nil" THEN NodeErr("failed to load directory", l.root)
        ELSE IF ~root[current].isDir \/ child \notin DOMAIN l.root
        THEN NodeErr("ErrNotExist", l.root)
        ELSE navigateLoop(l.root, store, path, i + 1)

navigate(root, store, path) == navigateLoop(root, store, path, 0)

\* Workspace.ReadFile: the error, the bytes, and the tree with what it loaded
ReadFile(w, path) ==
    LET nav == navigate(w.root, w.store, path)
        l == ensureLoaded(nav.root, w.store, path)
    IN  IF nav.err # "nil"
        THEN [err |-> nav.err, data |-> DataEmpty, root |-> nav.root]
        ELSE IF nav.root[path].isDir
        THEN [err |-> "is a directory", data |-> DataEmpty, root |-> nav.root]
        ELSE IF l.err # "nil"
        THEN [err |-> "failed to load file", data |-> DataEmpty, root |-> l.root]
        ELSE [err |-> "nil", data |-> l.root[path].content, root |-> l.root]

\* what ReadFile(path) returns in the state w
ReadResult(w, path) == [err |-> ReadFile(w, path).err, data |-> ReadFile(w, path).data]

\* Workspace.navigateOrCreate with createDirs: looks a name up in the children
\* map as it is in memory, and adds a new directory when the name is not there
RECURSIVE navigateOrCreateLoop(_, _, _)
navigateOrCreateLoop(root, path, i) ==
    LET current == SubSeq(path, 1, i)
        child == SubSeq(path, 1, i + 1)
        created == IF child \in DOMAIN root
                   THEN root
                   ELSE markDirty(MapSet(root, child, newDirNode(DirPerm)), current)
    IN  IF i = Len(path) THEN NodeOK(root)
        ELSE IF ~created[child].isDir THEN NodeErr("not a directory", created)
        ELSE navigateOrCreateLoop(created, path, i + 1)

navigateOrCreate(root, path) == navigateOrCreateLoop(root, path, 0)

\* Workspace.WriteFile: the error, the tree and the dirty paths after it
WriteFile(w, name, data, perm) ==
    LET dir == SubSeq(name, 1, Len(name) - 1)
        nav == navigateOrCreate(w.root, dir)
        l == ensureLoaded(nav.root, w.store, dir)
        c == IF ~l.root[name].loaded /\ l.root[name].hash.type # "none"
             THEN ensureLoaded(l.root, w.store, name)
             ELSE NodeOK(l.root)
        child == c.root[name]
        contentChanged == child.content # data
        modeChanged == child.perm # perm
        \* Node.setContent
        set == IF contentChanged
               THEN markDirty([c.root EXCEPT ![name].content = data], name)
               ELSE c.root
    IN  IF nav.err # "nil"
        THEN [err |-> nav.err, root |-> nav.root, dirty |-> w.dirty]
        ELSE IF l.err # "nil"
        THEN [err |-> "failed to load directory", root |-> l.root, dirty |-> w.dirty]
        ELSE IF name \notin DOMAIN l.root
        THEN [err |-> "nil",
              root |-> markDirty(MapSet(l.root, name, newFileNode(data, perm)), dir),
              dirty |-> w.dirty \cup {name}]
        ELSE IF l.root[name].isDir
        THEN [err |-> "is a directory", root |-> l.root, dirty |-> w.dirty]
        ELSE IF c.err # "nil"
        THEN [err |-> "failed to load file", root |-> c.root, dirty |-> w.dirty]
        ELSE IF contentChanged \/ modeChanged
        THEN [err |-> "nil", root |-> [set EXCEPT ![name].perm = perm],
              dirty |-> w.dirty \cup {name}]
        ELSE [err |-> "nil", root |-> c.root, dirty |-> w.dirty]

\* Node.computeHash: the hash of the node at p; a node that is not dirty and
\* has a hash keeps it, a directory hashes the children map it has in memory
RECURSIVE computeHash(_, _)
computeHash(root, p) ==
    LET n == root[p]
        names == {q[Len(q)] : q \in {q \in DOMAIN root : Len(q) = Len(p) + 1 /\ IsUnder(q, p)}}
    IN  IF ~n.dirty /\ n.hash.type # "none" THEN n.hash
        ELSE IF ~n.isDir THEN Object("blob", n.content, EmptyMap)
        ELSE Object("tree", DataEmpty,
                    [name \in names |->
                        [isDir |-> root[Append(p, name)].isDir,
                         perm |-> root[Append(p, name)].perm,
                         hash |-> computeHash(root, Append(p, name))]])

\* the nodes computeHash(root) reaches and rehashes: those it does not return
\* early from, below ancestors it does not return early from
Rehashed(root) ==
    {q \in DOMAIN root :
        \A a \in Prefixes(q) : root[a].dirty \/ root[a].hash.type = "none"}

\* the tree after root.computeHash: hash set, dirty cleared
computeHashTree(root) ==
    [q \in DOMAIN root |->
        IF q \in Rehashed(root)
        THEN [root[q] EXCEPT !.hash = computeHash(root, q), !.dirty = FALSE]
        ELSE root[q]]

\* Workspace.collectObjects: the objects of the nodes in memory, children in
\* the order the range over the children map yields them
RECURSIVE collectObjects(_, _, _, _, _)
RECURSIVE collectChildren(_, _, _, _, _, _)
collectObjects(root, store, order, p, objects) ==
    LET n == root[p] IN
    IF n.hash.type = "none" \/ n.hash \in objects THEN [err |-> "nil", objects |-> objects]
    ELSE IF n.hash \notin store THEN [err |-> "object not found", objects |-> objects]
    ELSE IF n.isDir THEN collectChildren(root, store, order, p, 1, objects \cup {n.hash})
    ELSE [err |-> "nil", objects |-> objects \cup {n.hash}]

collectChildren(root, store, order, p, i, objects) ==
    LET child == Append(p, order[i])
        got == IF child \in DOMAIN root
               THEN collectObjects(root, store, order, child, objects)
               ELSE [err |-> "nil", objects |-> objects]
    IN  IF i > Len(order) THEN [err |-> "nil", objects |-> objects]
        ELSE IF got.err # "nil" THEN got
        ELSE collectChildren(root, store, order, p, i + 1, got.objects)

\* Snapshot.decodeObject of a tree: the root is loaded, its children are not
decodeObject(hash) ==
    [q \in {<<>>} \cup {<<name>> : name \in DOMAIN hash.entries} |->
        IF q = <<>>
        THEN [isDir |-> TRUE, perm |-> DirPerm, content |-> DataEmpty, hash |-> hash,
              dirty |-> FALSE, loaded |-> TRUE, store |-> TRUE]
        ELSE lazyNode(hash.entries[q[1]])]

WorkspaceStep ==
    /\ ops < MaxWorkspaceOps
    /\ ops' = ops + 1
    /\ UNCHANGED <<entries, files, pending, dirty, indexFile, registry, sha, proc>>

WorkspaceWriteFile ==
    \E name \in WritePaths, data \in WorkspaceData, perm \in FilePerms :
        LET r == WriteFile(workspace, name, data, perm) IN
        /\ WorkspaceStep
        /\ workspace' = [workspace EXCEPT !.root = r.root, !.dirty = r.dirty]
        /\ ret' = [op |-> "WriteFile", name |-> name, data |-> data, perm |-> perm,
                   err |-> r.err,
                   before |-> [p \in ReadPaths |-> ReadResult(workspace, p)]]

WorkspaceReadFile ==
    \E path \in ReadPaths :
        LET r == ReadFile(workspace, path) IN
        /\ WorkspaceStep
        /\ workspace' = [workspace EXCEPT !.root = r.root]
        /\ ret' = [op |-> "ReadFile", name |-> path, err |-> r.err, data |-> r.data]

WorkspacePush ==
    \E order \in NameOrders :
        LET w == workspace
            rootHash == computeHash(w.root, <<>>)
            hashed == computeHashTree(w.root)
            store == w.store \cup {computeHash(w.root, q) : q \in Rehashed(w.root)}
            col == collectObjects(hashed, store, order, <<>>, {})
        IN  /\ WorkspaceStep
            /\ IF w.dirty = {} /\ w.baseHash.type # "none"
               THEN /\ UNCHANGED workspace
                    /\ ret' = [op |-> "Workspace.Push", err |-> "nil", hash |-> w.baseHash]
               ELSE IF col.err # "nil"
               THEN /\ workspace' = [w EXCEPT !.root = hashed, !.store = store,
                                              !.ref = rootHash]
                    /\ ret' = [op |-> "Workspace.Push", err |-> "failed to collect objects",
                               hash |-> NoHash]
               ELSE /\ workspace' = [root |-> hashed, dirty |-> {}, baseHash |-> rootHash,
                                     store |-> store, ref |-> rootHash,
                                     remote |-> [rootHash |-> rootHash,
                                                 objects |-> col.objects]]
                    /\ ret' = [op |-> "Workspace.Push", err |-> "nil", hash |-> rootHash]

WorkspacePull ==
    LET w == workspace
        store == w.store \cup w.remote.objects
    IN  /\ WorkspaceStep
        /\ IF w.dirty # {}
           THEN /\ UNCHANGED workspace
                /\ ret' = [op |-> "Workspace.Pull", err |-> "uncommitted changes"]
           ELSE IF w.remote.rootHash.type = "none"
           THEN /\ UNCHANGED workspace
                /\ ret' = [op |-> "Workspace.Pull", err |-> "failed to pull from remote"]
           ELSE IF w.remote.rootHash \notin store
           THEN /\ workspace' = [w EXCEPT !.store = store, !.ref = w.remote.rootHash]
                /\ ret' = [op |-> "Workspace.Pull", err |-> "failed to load root node"]
           ELSE /\ workspace' = [w EXCEPT !.root = decodeObject(w.remote.rootHash),
                                          !.baseHash = w.remote.rootHash,
                                          !.dirty = {},
                                          !.store = store,
                                          !.ref = w.remote.rootHash]
                /\ ret' = [op |-> "Workspace.Pull", err |-> "nil"]

WorkspaceNext == WorkspaceWriteFile \/ WorkspaceReadFile \/ WorkspacePush \/ WorkspacePull

WorkspaceSpec == Init /\ [][WorkspaceNext]_vars

(***************************************************************************)
(* Properties.                                                             *)
(***************************************************************************)
\* the keys List(s, "") yields
UserKeys(s) == {k \in DOMAIN entries[s] : ~IsInternal(k)}

\* C1: after a Pull that returned success on store B, whose ref store A wrote
\* by Put, Delete and successful Push, B.Get(k) succeeds for every key k that
\* B.List("") yields.
C1_PulledBlobsAvailable ==
    (ret.op = "Pull" /\ ret.s = "B" /\ ret.err = "nil")
        => \A k \in UserKeys("B") : Get("B", k).err = "nil"

\* the non-internal part of an index
UserPart(e) == Restrict(e, {k \in DOMAIN e : ~IsInternal(k)})

\* the index content the image at the store's own tag names in dev.cafs.root
PushedIndex == sha[registry[OwnTag].image.root.ixid]

\* the keys Get is compared on
ProbeKeys == Keys \cup ReservedKeys \cup DOMAIN entries["A"] \cup DOMAIN entries["B"]

\* the ref has seen one successful Push, and the index of store A is as that
\* Push left it: the entries it serialized and the shard records it saved
OnePushFromA ==
    /\ OwnTag \in DOMAIN registry
    /\ registry[OwnTag].rev = 1
    /\ entries["A"] = savePrefixHashes(load(EmptyMap, PushedIndex),
                                       registry[OwnTag].image.prefixes)

\* C2: after store A did one successful Push to a fresh remote and a fresh
\* store B did a successful Pull from it, A.Root() = B.Root() and
\* A.Get(k) = B.Get(k) for every key k.
C2_RoundTrip ==
    [][(/\ OnePushFromA
        /\ entries["B"] = EmptyMap /\ files["B"] = EmptyMap
        /\ ret'.op = "Pull" /\ ret'.s = "B" /\ ret'.err = "nil")
       => (/\ HashIn(entries'["A"], <<>>) = HashIn(entries'["B"], <<>>)
           /\ \A k \in ProbeKeys' : Get("A", k)' = Get("B", k)')]_vars

\* B has pulled A's only push, which holds a blob of length 0 and one of length 2
C2_Witness ==
    /\ OnePushFromA
    /\ ret.op = "Pull" /\ ret.s = "B" /\ ret.err = "nil"
    /\ Root("A") = Root("B") /\ Root("B") # EmptyDigest
    /\ \E k1, k2 \in UserKeys("B") :
           /\ Get("B", k1) = [err |-> "nil", data |-> DataEmpty]
           /\ Get("B", k2) = [err |-> "nil", data |-> DataY]

\* the digests packed in the layers of an image
Packed(image) ==
    UNION {{image.layers[i].packed[j].digest : j \in 1..Len(image.layers[i].packed)} :
              i \in 1..Len(image.layers)}

\* C3: when Push to one tag returns success, the image at that tag carries in
\* dev.cafs.root the digest of the index as serialized at entry to the Push,
\* and every digest in the pending set at entry is packed in a layer of it.
C3_PushCommits ==
    [][(ret'.op = "Push" /\ ret'.err = "nil" /\ Len(ret'.tags) = 1)
       => LET s == ret'.s
              image == registry'[ret'.tags[1]].image
          IN /\ image.root = Sum256(sha', serialize(entries[s]))
             /\ pending[s] \subseteq Packed(image)]_vars

\* C4: in a history of Put, Delete, Clear, Sync and GC on one store, every
\* call leaves Get(k) at the bytes of the most recent Put(k) not followed by
\* Delete(k) or Clear, and at not-found otherwise: a Put sets it for its key, a
\* Delete or Clear makes it not-found, every other call leaves it as it was;
\* Stat(k) reports the digest and the length of the bytes Get(k) returns.
C4_GetSeesLastPut ==
    [][\A s \in LocalStores, k \in LocalKeys :
          LET put == ret'.op = "Put" /\ ret'.err = "nil" /\ ret'.key = k
              del == (ret'.op = "Delete" /\ ret'.key = k) \/ ret'.op = "Clear"
          IN ret'.s = s =>
             /\ put => Get(s, k)' = [err |-> "nil", data |-> ret'.data]
             /\ del => Get(s, k)' = [err |-> "ErrNotFound"]
             /\ (~put /\ ~del) => Get(s, k)' = Get(s, k)
             /\ Get(s, k)'.err \in {"nil", "ErrNotFound"}
             /\ Stat(s, k)'.ok <=> Get(s, k)'.err = "nil"
             /\ Stat(s, k)'.ok =>
                    /\ Stat(s, k)'.info.d = Sha256(Get(s, k)'.data)
                    /\ Stat(s, k)'.info.s = Get(s, k)'.data.len]_vars

\* GC has removed a blob that an overwritten or deleted key referenced, and
\* a key put earlier still returns its bytes
C4_Witness ==
    /\ ret.op = "GC" /\ ret.removed > 0
    /\ \E k \in LocalKeys : Get(ret.s, k) = [err |-> "nil", data |-> DataY]
    /\ \E k \in LocalKeys \ {KeyReserved} : Get(ret.s, k) = [err |-> "ErrNotFound"]

\* C5: blob put is idempotent: a Put of bytes B gives the digest of B every
\* time and leaves the one file of that digest holding B; when the file is
\* already there, as it is after a Put of B, the Put writes no file and adds
\* nothing to the pending set.
C5_BlobPutIdempotent ==
    [][(ret'.op = "Put" /\ ret'.err = "nil")
       => LET s == ret'.s
              D == Sha256(ret'.data)
          IN /\ entries'[s][ret'.key].d = D
             /\ D \in DOMAIN files'[s] /\ files'[s][D] = ret'.data
             /\ (ret.op = "Put" /\ ret.err = "nil" /\ ret.s = s /\ ret.data = ret'.data)
                    => D \in DOMAIN files[s]
             /\ D \in DOMAIN files[s]
                    => (files' = files /\ pending' = pending /\ ~ret'.wrote)]_vars

\* the same bytes were put again: the second Put wrote nothing
C5_Witness ==
    /\ ret.op = "Put" /\ ret.err = "nil" /\ ~ret.wrote
    /\ DOMAIN files[ret.s] = {Sha256(ret.data)}
    /\ pending[ret.s] = {Sha256(ret.data)}
    /\ Cardinality(DOMAIN entries[ret.s]) = 2

\* the prefixes List and Hash are probed with
ListPrefixes == {KeyEmpty, KeyA, Underscore, prefixHashKeyPrefix}

\* the keys a List(s, p) yields, as full keys
Yielded(s, p) == {p \o y[1] : y \in List(s, p)}

\* no key that begins with "_" exists or is listed
ReservedHidden ==
    \A s \in Stores :
        \A k \in ReservedKeys \cup {x \in DOMAIN entries[s] : HasPrefix(x, Underscore)} :
            /\ ~Exists(s, k)
            /\ \A p \in ListPrefixes : k \notin Yielded(s, p)

\* C6: Put on a key that begins with "_" returns ErrReservedKey and leaves
\* the index, the blob files, the pending set and the dirty flag unchanged;
\* after every call no such key is yielded by List and Exists is false for it.
C6_ReservedKey ==
    [][/\ (ret'.op = "Put" /\ HasPrefix(ret'.key, Underscore))
           => (/\ ret'.err = "ErrReservedKey"
               /\ UNCHANGED <<entries, files, pending, dirty>>)
       /\ ReservedHidden']_vars

\* Put was refused on "_prefix/0a" while the index holds a record under that key
C6_Witness ==
    /\ ret.op = "Put" /\ ret.err = "ErrReservedKey" /\ ret.key = KeyPrefixLow
    /\ KeyPrefixLow \in DOMAIN entries[ret.s]
    /\ ~Exists(ret.s, KeyPrefixLow)
    /\ UserKeys(ret.s) # {}

\* C7: after every call on a store its `_prefix/*` records are not yielded by
\* List(p), not counted by Len or Stats.Entries, and Hash(p) is that of the
\* index without them; a successful Push leaves Root(), Hash(p) and Len()
\* unchanged.
C7_InternalFiltered ==
    [][/\ \A e \in {entries'[ret'.s]} : \A u \in {UserPart(e)} :
              /\ LenOf(e) = Cardinality(DOMAIN u)
              /\ StatsOf(e, files'[ret'.s]).Entries = Cardinality(DOMAIN u)
              /\ \A p \in ListPrefixes : \A l \in {ListOf(e, p)} :
                     /\ \A y \in l : ~IsInternal(p \o y[1])
                     /\ l = ListOf(u, p)
                     /\ HashIn(e, p) = HashIn(u, p)
       /\ \A s \in Stores :
              (ret'.op = "Push" /\ ret'.err = "nil" /\ ret'.s = s)
                  => (/\ HashIn(entries'[s], <<>>) = Root(s)
                      /\ LenOf(entries'[s]) = StoreLen(s)
                      /\ \A p \in ListPrefixes : HashIn(entries'[s], p) = Hash(s, p))]_vars

\* a successful Push has written `_prefix/*` records next to two user keys
C7_Witness ==
    /\ ret.op = "Push" /\ ret.err = "nil"
    /\ StoreLen(ret.s) = 2
    /\ Cardinality(DOMAIN entries[ret.s]) > 3
    /\ Root(ret.s) # EmptyDigest

\* the non-internal (key, digest, size) entries of an index
Triples(e) == {<<k, e[k].d, e[k].s>> : k \in {x \in DOMAIN e : ~IsInternal(x)}}

\* C8: Root() and Hash(p) depend only on the non-internal (key, digest, size)
\* entries: two indexes with the same such entries, of one store or of two,
\* give equal Hash(p) for every p, in whatever order Range visits the keys.
C8_HashCanonical ==
    /\ \A s \in Stores, p \in HashPrefixes :
           \A o \in RangeOrders(entries[s]) : HashOf(entries[s], p, o) = Hash(s, p)
    /\ \A s1, s2 \in Stores :
           Triples(entries[s1]) = Triples(entries[s2])
               => \A p \in HashPrefixes : Hash(s1, p) = Hash(s2, p)

\* two stores hold the same two keys with the same bytes and different Meta
C8_Witness ==
    /\ Triples(entries["A"]) = Triples(entries["B"])
    /\ entries["A"] # entries["B"]
    /\ Cardinality(DOMAIN entries["A"]) = 2
    /\ Root("A") = Root("B") /\ Root("A") # EmptyDigest

\* C9: a Put or Delete on a key that does not start with p leaves Hash(p)
\* unchanged; with no key under p, Hash(p) is the empty digest.
C9_HashFrame ==
    [][/\ \A s \in Stores, p \in HashPrefixes :
              (ret'.op \in {"Put", "Delete"} /\ ret'.s = s /\ ~HasPrefix(ret'.key, p))
                  => HashIn(entries'[s], p) = HashIn(entries[s], p)
       /\ \A s \in Stores, p \in HashPrefixes :
              /\ ListOf(entries[s], p) = {} => HashIn(entries[s], p) = EmptyDigest
              /\ ListOf(entries'[s], p) = {} => HashIn(entries'[s], p) = EmptyDigest]_vars

\* a Put on "a" in a store that has a key under "b", the other store has none
C9_Witness ==
    /\ ret.op = "Put" /\ ret.err = "nil" /\ ret.key = KeyA
    /\ Hash(ret.s, KeyB) # EmptyDigest
    /\ \E s \in Stores : entries[s] # EmptyMap /\ Hash(s, KeyB) = EmptyDigest

\* the (relative key, digest, size) triples under p
TriplesUnder(e, p) == {<<y[1], y[2].d, y[2].s>> : y \in ListOf(e, p)}

\* C10: two different sets of (relative key, digest, size) triples under p
\* give different strings of sorted, newline-joined items to hash.
C10_HashInjective ==
    \A s1, s2 \in Stores, p \in HashPrefixes :
        TriplesUnder(entries[s1], p) # TriplesUnder(entries[s2], p)
            => HashContent(entries[s1], p, SomeRangeOrder(entries[s1]))
                   # HashContent(entries[s2], p, SomeRangeOrder(entries[s2]))

\* C11: a Put that replaces an entry by one with the same key, digest and size
\* and a different Meta leaves Root() and every Hash(p) as they were.
C11_MetaFrame ==
    [][(ret'.op = "Put" /\ ret'.err = "nil" /\ ret'.metaOnly)
       => \A s \in Stores : ret'.s = s =>
              /\ entries'[s] # entries[s]
              /\ HashIn(entries'[s], <<>>) = HashIn(entries[s], <<>>)
              /\ \A p \in HashPrefixes : HashIn(entries'[s], p) = HashIn(entries[s], p)]_vars

\* a Put of the same bytes changed the Meta of one of two keys from nil to a value
C11_Witness ==
    /\ ret.op = "Put" /\ ret.err = "nil" /\ ret.metaOnly
    /\ entries[ret.s][ret.key].m = MetaA
    /\ Cardinality(DOMAIN entries[ret.s]) = 2
    /\ Hash(ret.s, KeyA) # EmptyDigest

\* the (key, digest, size) entries of an index, `_prefix/*` records included
AllTriples(e) == {<<k, e[k].d, e[k].s>> : k \in DOMAIN e}

\* C12: an Open that follows a successful Close or Sync on the same cache
\* directory and ref holds the keys, user keys and `_prefix/*` records, that the
\* index held at the Close, each with its digest and size, and so the same
\* Root(); a key absent at the Close is absent after the Open.
C12_PersistRoundTrip ==
    [][(ret'.op = "Open" /\ ret.op \in {"Close", "Sync"} /\ ret.err = "nil")
       => \A s \in PersistStores : (ret'.s = s /\ ret.s = s) =>
              /\ AllTriples(entries'[s]) = AllTriples(entries[s])
              /\ HashIn(entries'[s], <<>>) = HashIn(entries[s], <<>>)
              /\ \A k \in PersistKeys : k \notin DOMAIN entries[s] => Get(s, k)'.err = "ErrNotFound"]_vars

\* an instance opened on a written index file holds a user key of size 0 with
\* a Meta value and a `_prefix/*` record, and lacks another key
C12_Witness ==
    /\ ret.op = "Open" /\ "s" \in DOMAIN ret
    /\ indexFile[ret.s] # NoFile
    /\ \E k \in PersistKeys :
           /\ k \in DOMAIN entries[ret.s]
           /\ entries[ret.s][k].s = 0 /\ entries[ret.s][k].m # NoMeta
    /\ \E k \in PersistKeys : k \notin DOMAIN entries[ret.s]
    /\ \E k \in DOMAIN entries[ret.s] : IsInternal(k)

\* the index file holds the serialization of the index e, or is absent and e
\* is empty
InSync(e, file) == IF file = NoFile THEN e = EmptyMap ELSE file = serialize(e)

\* C13: Sync (and Close) with the dirty flag false writes nothing; with the
\* flag true it writes the serialization of the whole index to the index file
\* and clears the flag.  After every call of a history of Open, Put, Delete,
\* Clear, Push, Pull, Sync and Close, a false flag implies that the index file
\* holds the in-memory index, or is absent with the index empty.
C13_CleanMeansSynced ==
    [][\A s \in PersistStores :
          /\ (ret'.op \in {"Sync", "Close"} /\ ret'.s = s) =>
                 /\ entries'[s] = entries[s]
                 /\ ~dirty'[s]
                 /\ IF dirty[s] THEN indexFile'[s] = serialize(entries[s])
                    ELSE indexFile'[s] = indexFile[s]
          /\ ~dirty[s] => InSync(entries[s], indexFile[s])
          /\ ~dirty'[s] => InSync(entries'[s], indexFile'[s])]_vars

\* a Sync late in a history has left the index file holding an index of user
\* keys and `_prefix/*` records
C13_Witness ==
    /\ ret.op = "Sync" /\ ~dirty[ret.s]
    /\ indexFile[ret.s] = serialize(entries[ret.s])
    /\ UserKeys(ret.s) # {}
    /\ \E k \in DOMAIN entries[ret.s] : IsInternal(k)
    /\ ops >= 4

\* C14: a Pull that returns an error leaves the in-memory index, `_prefix/*`
\* records included, exactly as it was before the call.
C14_FailedPullFrame ==
    [][(ret'.op = "Pull" /\ ret'.err # "nil")
       => \A s \in Stores : ret'.s = s => entries'[s] = entries[s]]_vars

\* C15: after a Pull that returned success the non-internal entries of the
\* index are those of the pulled index blob, each with the pulled digest and
\* size; a key the index held before the Pull that the pulled index does not
\* hold is not returned by Get, Stat or List.
C15_PullReplaces ==
    [][(ret'.op = "Pull" /\ ret'.err = "nil")
       => \A s \in Stores : ret'.s = s =>
              /\ Triples(entries'[s]) = Triples(load(EmptyMap, PushedIndex))
              /\ \A k \in UserKeys(s) \ DOMAIN PushedIndex.json :
                     /\ Get(s, k)'.err = "ErrNotFound"
                     /\ ~Stat(s, k)'.ok
                     /\ k \notin Yielded(s, KeyEmpty)']_vars

\* the shards a Push of store s touches: those of the blobs put since the last
\* Push and that of the index blob it serializes
Touched(s, root) == {extractPrefix(d) : d \in pending[s] \cup {root}}

\* C16: when a store that holds the shard records of an earlier Push has put
\* new blobs and a Push to one tag returns success, every shard of those
\* records that the Push does not touch is still in the PrefixInfo map of the
\* image and of the store with its previous {hash, layer}, and the layers of
\* the image hold blobs of touched shards only.
C16_CarriesUnchanged ==
    [][(ret'.op = "Push" /\ ret'.err = "nil" /\ Len(ret'.tags) = 1)
       => \A s \in Stores :
              (/\ ret'.s = s
               /\ \E d \in pending[s] : IsData(d)
               /\ loadPrefixHashes(entries[s]) # EmptyMap)
              => \A local \in {loadPrefixHashes(entries[s])} :
                 \A image \in {registry'[ret'.tags[1]].image} :
                     /\ \A p \in (DOMAIN local) \ Touched(s, image.root) :
                            /\ p \in DOMAIN image.prefixes
                            /\ image.prefixes[p] = local[p]
                            /\ p \in DOMAIN loadPrefixHashes(entries'[s])
                            /\ loadPrefixHashes(entries'[s])[p] = local[p]
                     /\ \A d \in Packed(image) :
                            extractPrefix(d) \in Touched(s, image.root)]_vars

\* C17: a successful Push that directly follows a successful Push of the same
\* store to the same tag builds an image with zero layers.
C17_RepeatedPushNoLayers ==
    [][(/\ ret.op = "Push" /\ ret.err = "nil"
        /\ ret'.op = "Push" /\ ret'.err = "nil"
        /\ ret'.s = ret.s /\ ret'.tags = ret.tags /\ Len(ret'.tags) = 1)
       => Len(registry'[ret'.tags[1]].image.layers) = 0]_vars

\* the digests whose blob file a step creates in the blob directory of store s
Created(s) == (DOMAIN files'[s]) \ (DOMAIN files[s])

PushState(s) ==
    [entries |-> entries[s], files |-> files[s], pending |-> pending[s],
     dirty |-> dirty[s], registry |-> registry, sha |-> sha, err |-> "nil"]

\* the number of images written at a tag
Rev(reg, tag) == IF tag \in DOMAIN reg THEN reg[tag].rev ELSE 0

UserReferenced(s) == {entries[s][k].d : k \in UserKeys(s)}

\* C20: after GC every digest that a non-internal entry references and whose
\* blob file existed still has its file with the same bytes, no blob file of
\* an unreferenced digest remains, and the count returned is the number of
\* blob files removed; the index is unchanged.
C20_GCSafe ==
    [][ret'.op = "GC"
       => \A s \in Stores : ret'.s = s =>
              /\ entries'[s] = entries[s]
              /\ \A d \in UserReferenced(s) \cap DOMAIN files[s] :
                     d \in DOMAIN files'[s] /\ files'[s][d] = files[s][d]
              /\ \A d \in DOMAIN files'[s] : d \in UserReferenced(s)
              /\ (DOMAIN files'[s]) \subseteq (DOMAIN files[s])
              /\ ret'.removed = Cardinality((DOMAIN files[s]) \ (DOMAIN files'[s]))]_vars

\* GC removed blob files of a store that holds `_prefix/*` records and a user
\* key whose bytes Get still returns
C20_Witness ==
    /\ ret.op = "GC" /\ ret.removed > 1
    /\ \E k \in DOMAIN entries[ret.s] : IsInternal(k)
    /\ \E k \in UserKeys(ret.s) : Get(ret.s, k).err = "nil"

\* C21: UnpackLayer(PackLayer(M)) succeeds and gives M for every map M from
\* digests to bytes of any length, 0 included; the empty map packs to 0 bytes
\* and one entry of 0 bytes packs to 79 bytes.
C21_CodecRoundTrip ==
    /\ ret.op = "PackLayer" =>
           /\ ret.blobs = EmptyMap => ret.size = 0
           /\ (\E d \in CodecDigests : ret.blobs = [x \in {d} |-> DataEmpty]) => ret.size = 79
    /\ ret.op = "UnpackLayer" =>
           /\ ret.out.err = "nil"
           /\ ret.out.blobs = ret.blobs

\* the bytes of the first n shards of a group
RECURSIVE GroupSize(_, _, _)
GroupSize(sizes, group, n) ==
    IF n = 0 THEN 0 ELSE sizes[group[n]] + GroupSize(sizes, group, n - 1)

\* C22: in every plan of BuildLayerPlan a group of two or more shards totals
\* at most 2 * LayerSoftMax, and a group totals more than LayerSoftMax only
\* if it is a single shard or its total before its last shard was below
\* LayerMinSize; four shards of 8 MiB give four single-shard layers.
C22_PlanBounds ==
    ret.op = "BuildLayerPlan" =>
        /\ \A i \in 1..Len(ret.plan) :
               \E group \in {ret.plan[i]} :
               \E total \in {GroupSize(ret.prefixSizes, group, Len(group))},
                  before \in {GroupSize(ret.prefixSizes, group, Len(group) - 1)} :
                   /\ Len(group) >= 2 => total <= 2 * LayerSoftMax
                   /\ total > LayerSoftMax => Len(group) = 1 \/ before < LayerMinSize
        /\ ret.prefixSizes = [x \in PlanShards |-> 8 * MiB] =>
               /\ Len(ret.plan) = 4
               /\ \A i \in 1..4 : Len(ret.plan[i]) = 1

\* BuildLayerPlan returned a group of two or more shards that reaches
\* exactly 2 * LayerSoftMax, next to a group closed before a shard that
\* would have taken it over LayerSoftMax
C22_Witness ==
    /\ ret.op = "BuildLayerPlan"
    /\ Len(ret.plan) >= 2
    /\ \E i \in 1..Len(ret.plan) :
           /\ Len(ret.plan[i]) >= 2
           /\ GroupSize(ret.prefixSizes, ret.plan[i], Len(ret.plan[i])) = 2 * LayerSoftMax

\* C23: when the context is never cancelled, retry invokes the call at most
\* 3 times, returns at the first success without a further invocation,
\* returns the error of the last attempt after 3 failures; two failures and
\* a success give success on the third attempt.
C23_RetryBounded ==
    \A g \in DOMAIN proc :
        ~proc[g].ctxDone =>
            \E calls \in {proc[g].calls} :
                /\ Len(calls) <= maxAttempts
                /\ \A n \in 1..(Len(calls) - 1) : calls[n].err \notin {"nil", "running"}
                /\ proc[g].pc = "returned" =>
                       /\ Len(calls) >= 1
                       /\ proc[g].err = calls[Len(calls)].err
                       /\ proc[g].err # "nil" => Len(calls) = maxAttempts

\* retry returned success from its third attempt after two failures, the
\* context never cancelled
C23_Witness ==
    /\ Returned("r")
    /\ ~proc.r.ctxDone
    /\ Len(proc.r.calls) = 3
    /\ proc.r.calls[1].err = "net error 1"
    /\ proc.r.calls[2].err = "net error 2"
    /\ proc.r.calls[3].err = "nil"
    /\ proc.r.err = "nil"

\* C24: once the context is cancelled, retry starts no further attempt of
\* the call and returns an error, whether it was cancelled before the first
\* attempt, during an attempt, or during a backoff wait.
C24_CancelAborts ==
    \A g \in DOMAIN proc :
        /\ \A n \in 1..Len(proc[g].calls) : ~proc[g].calls[n].ctxDone
        /\ proc[g].pc = "returned" /\ proc[g].ctxDone => proc[g].err # "nil"

\* C25: Open calls Pull exactly when autoPull is always, or autoPull is
\* missing and the cache directory has no local index; otherwise it makes no
\* remote call; a failed auto-pull does not make Open fail.
C25_AutoPull ==
    (ret.op = "Open" /\ "autoPull" \in DOMAIN ret /\ ret.remote) =>
        /\ ret.pulled <=> \/ ret.autoPull = AutoPullAlways
                          \/ ret.autoPull = AutoPullMissing /\ ~ret.hadIndex
        /\ ret.err = "nil"

\* C26: for every interleaving of a Put(k, bytes) with a GC on the same
\* store, once both have returned, the blob of the entry of k is on disk and
\* Get(k) returns the bytes.
C26_PutGCSafe ==
    (DOMAIN proc = {"p", Collector} /\ Returned("p") /\ Returned(Collector)) =>
        /\ proc.p.key \in DOMAIN entries["A"]
        /\ entries["A"][proc.p.key].d \in DOMAIN files["A"]
        /\ Get("A", proc.p.key) = [err |-> "nil", data |-> proc.p.data]

\* C27: for every interleaving of two concurrent puts of the same bytes, the
\* blob file of their digest is written by at most one of them.
C27_WrittenOnce ==
    (DOMAIN proc = Putters /\ proc.p.digest = proc.q.digest) =>
        ~(proc.p.wrote /\ proc.q.wrote)

\* C28: for every interleaving of a Put that creates a new blob with a Push
\* that returns success, the new digest is packed in a layer of the image of
\* that Push or is in the pending set after the Push has returned.
C28_PendingAtomic ==
    (/\ DOMAIN proc = {"p", Pusher}
     /\ Returned("p") /\ proc.p.isNew
     /\ Returned(Pusher) /\ proc[Pusher].err = "nil") =>
        \/ proc.p.digest \in Packed(proc[Pusher].image)
        \/ proc.p.digest \in pending["A"]

\* C29: after a crash has left a partial file for digest D, the next put of
\* the bytes whose digest is D rewrites the file: once that put has returned
\* and no write of D is in progress, reading D gives the complete bytes.
C29_PartialRewritten ==
    (/\ ret.op = "Put" /\ "by" \in DOMAIN ret /\ ret.err = "nil"
     /\ \A g \in DOMAIN proc : proc[g].digest = Sha256(ret.data) => proc[g].pc # "write") =>
        blobGet(files["A"], Sha256(ret.data)) = [err |-> "nil", data |-> ret.data]

\* the digests of the layers contained in an image
LayerDigests(image) == {LayerDigest(image.layers[i]) : i \in 1..Len(image.layers)}

\* C30: in every image pushed, each layer digest recorded in the
\* dev.cafs.prefixes label is the digest of a layer of that same image, also
\* for shards carried forward unchanged and for a manifest-only push.
C30_ImageSelfConsistent ==
    \A tag \in DOMAIN registry :
        \A p \in DOMAIN registry[tag].image.prefixes :
            registry[tag].image.prefixes[p].layer \in LayerDigests(registry[tag].image)

\* the layer digests that the dev.cafs.prefixes label of an image names for
\* the shards that a store's `_prefix/*` records lack or hold with another hash
NamedLayers(image, e) ==
    LET local == loadPrefixHashes(e)
    IN {image.prefixes[p].layer :
           p \in {q \in DOMAIN image.prefixes :
                     q \notin DOMAIN local \/ local[q].hash # image.prefixes[q].hash}}

\* C31: a Pull downloads exactly the layers named by the shards of the
\* remote label that the local records lack or hold with a different hash;
\* when no shard differs it downloads no layer and reads the index blob from
\* the local blob store.
C31_PullFetchesDiff ==
    [][(ret'.op = "Pull" /\ ret'.err = "nil")
       => \A s \in Stores : ret'.s = s =>
              \E named \in {NamedLayers(registry[OwnTag].image, entries[s])} :
                  /\ ret'.fetched = named
                  /\ named = {} => registry[OwnTag].image.root \in DOMAIN files[s]]_vars

\* C32: after a successful Pull the local record `_prefix/<shard>` of every
\* shard of the remote label holds the remote {hash, layer}, so a Pull
\* repeated at once needs no layer, also when the pulled index blob holds
\* `_prefix/*` entries written by the pusher.
C32_PullPersistsPrefixes ==
    [][(ret'.op = "Pull" /\ ret'.err = "nil")
       => \A s \in Stores : ret'.s = s =>
              \E image \in {registry[OwnTag].image} :
              \E local \in {loadPrefixHashes(entries'[s])} :
                  /\ \A p \in DOMAIN image.prefixes :
                         p \in DOMAIN local /\ local[p] = image.prefixes[p]
                  /\ NamedLayers(image, entries'[s]) = {}]_vars

\* C33: after a Push to several tags returned success, the image at each of
\* the tags packs every blob that was pending at entry to Push, and all the
\* tags carry the same dev.cafs.root.
C33_MultiTagSameContent ==
    [][(ret'.op = "Push" /\ ret'.err = "nil" /\ Len(ret'.tags) >= 2)
       => \A s \in Stores : ret'.s = s =>
              \A i \in 1..Len(ret'.tags) :
                  \E image \in {registry'[ret'.tags[i]].image} :
                      /\ pending[s] \subseteq Packed(image)
                      /\ image.root = registry'[ret'.tags[1]].image.root]_vars

\* C34: UnpackLayer on a proper prefix of a packed layer that ends inside a
\* record (inside the digest, the length or the data) returns an error.
C34_UnpackReadsInFull ==
    (/\ ret.op = "UnpackLayerOf"
     /\ \A n \in 0..Len(ret.packed) : ret.size # PackedLen(ret.packed, n)) =>
        ret.out.err # "nil"

\* the groups of a plan joined in output order
RECURSIVE Flatten(_, _)
Flatten(plan, n) == IF n = 0 THEN <<>> ELSE Flatten(plan, n - 1) \o plan[n]

\* C35: BuildLayerPlan returns an ordered partition of its input: every group
\* is non-empty, every shard is in exactly one group, the groups joined in
\* output order are the shard names in ascending order, and the empty input
\* gives no group.
C35_PlanPartition ==
    ret.op = "BuildLayerPlan" =>
        \E plan \in {ret.plan} :
        \E all \in {Flatten(plan, Len(plan))} :
            /\ \A i \in 1..Len(plan) : Len(plan[i]) >= 1
            /\ \A p \in DOMAIN ret.prefixSizes :
                   Cardinality({<<i, j>> \in (1..Len(plan)) \X (1..4) :
                                   j <= Len(plan[i]) /\ plan[i][j] = p}) = 1
            /\ Len(all) = Cardinality(DOMAIN ret.prefixSizes)
            /\ \A i \in 1..Len(all) : all[i] \in DOMAIN ret.prefixSizes
            /\ \A i \in 1..(Len(all) - 1) : StrLess(all[i], all[i + 1])
            /\ ret.prefixSizes = EmptyMap => plan = <<>>

\* BuildLayerPlan split four shards in a group of one, a group of two and a
\* trailing group of one
C35_Witness ==
    /\ ret.op = "BuildLayerPlan"
    /\ DOMAIN ret.prefixSizes = PlanShards
    /\ Len(ret.plan) = 3
    /\ Len(ret.plan[1]) = 1 /\ Len(ret.plan[2]) = 2 /\ Len(ret.plan[3]) = 1

\* C36: for every interleaving of a Put or Delete with a Sync on one store,
\* once both have returned the index file holds the effect of the
\* modification, or Dirty() is true so that a later Close writes it.
C36_SyncLosesNothing ==
    (/\ Returned(Syncer)
     /\ \A g \in DOMAIN proc : proc[g].pc = "returned") =>
        \/ dirty["A"]
        \/ InSync(entries["A"], indexFile["A"])

\* C37: for every interleaving of Puts and Gets on one store, a Get(k) that
\* returns successfully returns bytes whose SHA-256 digest is the Digest of
\* the index entry of k.
C37_GetSeesWholeBlob ==
    (ret.op = "Get" /\ ret.err = "nil" /\ "digest" \in DOMAIN ret) =>
        Sum256(sha, ret.data) = ret.digest

\* C38: when two stores with different refs share one cache directory, GC
\* on one of them removes no blob that a non-internal entry of the other
\* store's index references.
C38_GCSparesOtherIndex ==
    [][(ret'.op = "GC" /\ "dir" \in DOMAIN ret')
       => \A s \in Stores : ret'.s = s =>
              \A o \in Stores \ {s} :
                  UserReferenced(o) \cap DOMAIN files[SharedDir]
                      \subseteq DOMAIN files'[SharedDir]]_vars


\* C39: a WriteFile(name) that returns nil changes only the file at name.
\* After it, and after a Workspace.Push that follows it and returns nil,
\* ReadFile of every other path that ReadFile could read before the
\* WriteFile returns the same bytes, whether or not the directories on the
\* way to name were loaded.
C39_WriteFileFrame ==
    [][/\ (ret'.op = "WriteFile" /\ ret'.err = "nil")
            => \A p \in ReadPaths \ {ret'.name} :
                   ret'.before[p].err = "nil"
                       => ReadResult(workspace', p) = ret'.before[p]
       /\ (ret'.op = "Workspace.Push" /\ ret'.err = "nil"
             /\ ret.op = "WriteFile" /\ ret.err = "nil")
            => \A p \in ReadPaths \ {ret.name} :
                   ret.before[p].err = "nil"
                       => ReadResult(workspace', p) = ret.before[p]]_vars

====
